---- MODULE Spec2Model ----
(***************************************************************************)
(* The MDL text parser of war3-model (src/parsers/mdl.ts) as a state       *)
(* machine.  The input is a sequence of one-character strings; the cursor  *)
(* `pos' is 0-based as in the source.  Every scanner primitive, block      *)
(* reader and handler is an operator that returns the cursor it leaves     *)
(* behind, the value it produced and the way it ended:                     *)
(*   "none"        it returned                                             *)
(*   "SyntaxError" throwError (mdl.ts:23-25), at the cursor state.pos      *)
(*   "Error"       a plain `throw new Error(...)' with no offset           *)
(*   "TypeError"   a property access on null/undefined                     *)
(*   "RangeError"  an invalid typed-array length                           *)
(*   "hang"        a loop whose exit condition can never become true       *)
(*   "exhaust"     a loop with no exit that grows a string on every turn;  *)
(*                 it ends only when the engine refuses the allocation     *)
(* JavaScript values are tagged records so that values of different types  *)
(* can be told apart: num, nan, real (a number with a fraction or an       *)
(* exponent, whose value is not tracked), null, undefined, str, bool, arr, *)
(* anim, obj and ref (the address of an object on the heap).  A negative   *)
(* number written into a Uint32Array is beyond 2^31 and is not tracked     *)
(* either.                                                                 *)
(***************************************************************************)
EXTENDS Integers, Sequences, FiniteSets, TLC

VARIABLES str, pos, model, heap, pc, ex, src

vars == <<str, pos, model, heap, pc, ex, src>>

-----------------------------------------------------------------------------
(* Keyword spellings.                                                      *)
kwVersion == <<"V","e","r","s","i","o","n">>
kwModel == <<"M","o","d","e","l">>
kwSequences == <<"S","e","q","u","e","n","c","e","s">>
kwTextures == <<"T","e","x","t","u","r","e","s">>
kwMaterials == <<"M","a","t","e","r","i","a","l","s">>
kwGeoset == <<"G","e","o","s","e","t">>
kwGeosetAnim == <<"G","e","o","s","e","t","A","n","i","m">>
kwBone == <<"B","o","n","e">>
kwHelper == <<"H","e","l","p","e","r">>
kwAttachment == <<"A","t","t","a","c","h","m","e","n","t">>
kwPivotPoints == <<"P","i","v","o","t","P","o","i","n","t","s">>
kwEventObject == <<"E","v","e","n","t","O","b","j","e","c","t">>
kwCollisionShape == <<"C","o","l","l","i","s","i","o","n","S","h","a","p","e">>
kwGlobalSequences == <<"G","l","o","b","a","l","S","e","q","u","e","n","c","e","s">>
kwParticleEmitter == <<"P","a","r","t","i","c","l","e","E","m","i","t","t","e","r">>
kwParticleEmitter2 == <<"P","a","r","t","i","c","l","e","E","m","i","t","t","e","r","2">>
kwCamera == <<"C","a","m","e","r","a">>
kwLight == <<"L","i","g","h","t">>
kwTextureAnims == <<"T","e","x","t","u","r","e","A","n","i","m","s">>
kwRibbonEmitter == <<"R","i","b","b","o","n","E","m","i","t","t","e","r">>
kwInterval == <<"I","n","t","e","r","v","a","l">>
kwMinimumExtent == <<"M","i","n","i","m","u","m","E","x","t","e","n","t">>
kwMaximumExtent == <<"M","a","x","i","m","u","m","E","x","t","e","n","t">>
kwFormatVersion == <<"F","o","r","m","a","t","V","e","r","s","i","o","n">>
kwName == <<"N","a","m","e">>
kwNonLooping == <<"N","o","n","L","o","o","p","i","n","g">>
kwFlags == <<"F","l","a","g","s">>
kwWrapWidth == <<"W","r","a","p","W","i","d","t","h">>
kwWrapHeight == <<"W","r","a","p","H","e","i","g","h","t">>
kwDontInterp == <<"D","o","n","t","I","n","t","e","r","p">>
kwLinear == <<"L","i","n","e","a","r">>
kwHermite == <<"H","e","r","m","i","t","e">>
kwBezier == <<"B","e","z","i","e","r">>
kwGlobalSeqId == <<"G","l","o","b","a","l","S","e","q","I","d">>
kwStatic == <<"s","t","a","t","i","c">>
kwTextureID == <<"T","e","x","t","u","r","e","I","D">>
kwAlpha == <<"A","l","p","h","a">>
kwUnshaded == <<"U","n","s","h","a","d","e","d">>
kwSphereEnvMap == <<"S","p","h","e","r","e","E","n","v","M","a","p">>
kwTwoSided == <<"T","w","o","S","i","d","e","d">>
kwUnfogged == <<"U","n","f","o","g","g","e","d">>
kwNoDepthTest == <<"N","o","D","e","p","t","h","T","e","s","t">>
kwNoDepthSet == <<"N","o","D","e","p","t","h","S","e","t">>
kwFilterMode == <<"F","i","l","t","e","r","M","o","d","e">>
kwNone == <<"N","o","n","e">>
kwTransparent == <<"T","r","a","n","s","p","a","r","e","n","t">>
kwBlend == <<"B","l","e","n","d">>
kwAdditive == <<"A","d","d","i","t","i","v","e">>
kwAddAlpha == <<"A","d","d","A","l","p","h","a">>
kwModulate == <<"M","o","d","u","l","a","t","e">>
kwModulate2x == <<"M","o","d","u","l","a","t","e","2","x">>
kwTVertexAnimId == <<"T","V","e","r","t","e","x","A","n","i","m","I","d">>
kwShading == <<"S","h","a","d","i","n","g">>
kwCoordId == <<"C","o","o","r","d","I","d">>
kwLayer == <<"L","a","y","e","r">>
kwPriorityPlane == <<"P","r","i","o","r","i","t","y","P","l","a","n","e">>
kwConstantColor == <<"C","o","n","s","t","a","n","t","C","o","l","o","r">>
kwSortPrimsFarZ == <<"S","o","r","t","P","r","i","m","s","F","a","r","Z">>
kwFullResolution == <<"F","u","l","l","R","e","s","o","l","u","t","i","o","n">>
kwRenderMode == <<"R","e","n","d","e","r","M","o","d","e">>
kwLayers == <<"L","a","y","e","r","s">>
kwMaterial == <<"M","a","t","e","r","i","a","l">>
kwVertices == <<"V","e","r","t","i","c","e","s">>
kwNormals == <<"N","o","r","m","a","l","s">>
kwTVertices == <<"T","V","e","r","t","i","c","e","s">>
kwVertexGroup == <<"V","e","r","t","e","x","G","r","o","u","p">>
kwFaces == <<"F","a","c","e","s">>
kwGroups == <<"G","r","o","u","p","s">>
kwTotalGroupsCount == <<"T","o","t","a","l","G","r","o","u","p","s","C","o","u","n","t">>
kwBoundsRadius == <<"B","o","u","n","d","s","R","a","d","i","u","s">>
kwMaterialID == <<"M","a","t","e","r","i","a","l","I","D">>
kwSelectionGroup == <<"S","e","l","e","c","t","i","o","n","G","r","o","u","p">>
kwAnim == <<"A","n","i","m">>
kwAnims == <<"A","n","i","m","s">>
kwUnselectable == <<"U","n","s","e","l","e","c","t","a","b","l","e">>
kwTriangles == <<"T","r","i","a","n","g","l","e","s">>
kwMatrices == <<"M","a","t","r","i","c","e","s">>
kwGeosetId == <<"G","e","o","s","e","t","I","d">>
kwColor == <<"C","o","l","o","r">>
kwDropShadow == <<"D","r","o","p","S","h","a","d","o","w">>
kwObjectId == <<"O","b","j","e","c","t","I","d">>
kwParent == <<"P","a","r","e","n","t">>
kwPivotPoint == <<"P","i","v","o","t","P","o","i","n","t">>
kwTranslation == <<"T","r","a","n","s","l","a","t","i","o","n">>
kwRotation == <<"R","o","t","a","t","i","o","n">>
kwScaling == <<"S","c","a","l","i","n","g">>
kwVisibility == <<"V","i","s","i","b","i","l","i","t","y">>
kwBillboardedLockZ == <<"B","i","l","l","b","o","a","r","d","e","d","L","o","c","k","Z">>
kwBillboardedLockY == <<"B","i","l","l","b","o","a","r","d","e","d","L","o","c","k","Y">>
kwBillboardedLockX == <<"B","i","l","l","b","o","a","r","d","e","d","L","o","c","k","X">>
kwBillboarded == <<"B","i","l","l","b","o","a","r","d","e","d">>
kwCameraAnchored == <<"C","a","m","e","r","a","A","n","c","h","o","r","e","d">>
kwDontInherit == <<"D","o","n","t","I","n","h","e","r","i","t">>
kwPath == <<"P","a","t","h">>
kwMultiple == <<"M","u","l","t","i","p","l","e">>
kwGeosetAnimId == <<"G","e","o","s","e","t","A","n","i","m","I","d">>
kwEventTrack == <<"E","v","e","n","t","T","r","a","c","k">>
kwSphere == <<"S","p","h","e","r","e">>
kwBox == <<"B","o","x">>
kwShape == <<"S","h","a","p","e">>
kwDuration == <<"D","u","r","a","t","i","o","n">>
kwEmitterUsesMDL == <<"E","m","i","t","t","e","r","U","s","e","s","M","D","L">>
kwEmitterUsesTGA == <<"E","m","i","t","t","e","r","U","s","e","s","T","G","A">>
kwEmissionRate == <<"E","m","i","s","s","i","o","n","R","a","t","e">>
kwGravity == <<"G","r","a","v","i","t","y">>
kwLongitude == <<"L","o","n","g","i","t","u","d","e">>
kwLatitude == <<"L","a","t","i","t","u","d","e">>
kwParticle == <<"P","a","r","t","i","c","l","e">>
kwLifeSpan == <<"L","i","f","e","S","p","a","n">>
kwInitVelocity == <<"I","n","i","t","V","e","l","o","c","i","t","y">>
kwSpeed == <<"S","p","e","e","d">>
kwWidth == <<"W","i","d","t","h">>
kwLength == <<"L","e","n","g","t","h">>
kwVariation == <<"V","a","r","i","a","t","i","o","n">>
kwLineEmitter == <<"L","i","n","e","E","m","i","t","t","e","r">>
kwModelSpace == <<"M","o","d","e","l","S","p","a","c","e">>
kwXYQuad == <<"X","Y","Q","u","a","d">>
kwBoth == <<"B","o","t","h">>
kwHead == <<"H","e","a","d">>
kwTail == <<"T","a","i","l">>
kwSquirt == <<"S","q","u","i","r","t">>
kwSegmentColor == <<"S","e","g","m","e","n","t","C","o","l","o","r">>
kwParticleScaling == <<"P","a","r","t","i","c","l","e","S","c","a","l","i","n","g">>
kwLifeSpanUVAnim == <<"L","i","f","e","S","p","a","n","U","V","A","n","i","m">>
kwDecayUVAnim == <<"D","e","c","a","y","U","V","A","n","i","m">>
kwTailUVAnim == <<"T","a","i","l","U","V","A","n","i","m">>
kwTailDecayUVAnim == <<"T","a","i","l","D","e","c","a","y","U","V","A","n","i","m">>
kwAlphaKey == <<"A","l","p","h","a","K","e","y">>
kwFrameFlags == <<"F","r","a","m","e","F","l","a","g","s">>
kwPosition == <<"P","o","s","i","t","i","o","n">>
kwFieldOfView == <<"F","i","e","l","d","O","f","V","i","e","w">>
kwNearClip == <<"N","e","a","r","C","l","i","p">>
kwFarClip == <<"F","a","r","C","l","i","p">>
kwTarget == <<"T","a","r","g","e","t">>
kwTargetPosition == <<"T","a","r","g","e","t","P","o","s","i","t","i","o","n">>
kwTargetTranslation == <<"T","a","r","g","e","t","T","r","a","n","s","l","a","t","i","o","n">>
kwIntensity == <<"I","n","t","e","n","s","i","t","y">>
kwAmbIntensity == <<"A","m","b","I","n","t","e","n","s","i","t","y">>
kwAmbColor == <<"A","m","b","C","o","l","o","r">>
kwAttenuationStart == <<"A","t","t","e","n","u","a","t","i","o","n","S","t","a","r","t">>
kwAttenuationEnd == <<"A","t","t","e","n","u","a","t","i","o","n","E","n","d">>
kwOmnidirectional == <<"O","m","n","i","d","i","r","e","c","t","i","o","n","a","l">>
kwDirectional == <<"D","i","r","e","c","t","i","o","n","a","l">>
kwAmbient == <<"A","m","b","i","e","n","t">>
kwLightType == <<"L","i","g","h","t","T","y","p","e">>
kwHeightAbove == <<"H","e","i","g","h","t","A","b","o","v","e">>
kwHeightBelow == <<"H","e","i","g","h","t","B","e","l","o","w">>
kwTextureSlot == <<"T","e","x","t","u","r","e","S","l","o","t">>
kwRows == <<"R","o","w","s">>
kwColumns == <<"C","o","l","u","m","n","s">>
kwTVertexAnim == <<"T","V","e","r","t","e","x","A","n","i","m">>
kwBitmap == <<"B","i","t","m","a","p">>
kwImage == <<"I","m","a","g","e">>
kwInTan == <<"I","n","T","a","n">>
kwOutTan == <<"O","u","t","T","a","n">>
kwBlendTime == <<"B","l","e","n","d","T","i","m","e">>
kwFaceFX == <<"F","a","c","e","F","X">>
kwFoo == <<"F","o","o">>
kwNull == <<"n","u","l","l">>
kwDontInheritTranslation == <<"D","o","n","t","I","n","h","e","r","i","t","T","r","a","n","s","l","a","t","i","o","n">>
kwDontInheritRotation == <<"D","o","n","t","I","n","h","e","r","i","t","R","o","t","a","t","i","o","n">>
kwDontInheritScaling == <<"D","o","n","t","I","n","h","e","r","i","t","S","c","a","l","i","n","g">>
kwconstructor == <<"c","o","n","s","t","r","u","c","t","o","r">>
kwhasOwnProperty == <<"h","a","s","O","w","n","P","r","o","p","e","r","t","y">>
kwisPrototypeOf == <<"i","s","P","r","o","t","o","t","y","p","e","O","f">>
kwpropertyIsEnumerable == <<"p","r","o","p","e","r","t","y","I","s","E","n","u","m","e","r","a","b","l","e">>
kwtoLocaleString == <<"t","o","L","o","c","a","l","e","S","t","r","i","n","g">>
kwtoString == <<"t","o","S","t","r","i","n","g">>
kwvalueOf == <<"v","a","l","u","e","O","f">>
-----------------------------------------------------------------------------
(* Characters and character classes.                                       *)
UNDEF == "undefined"

LowerCase ==
  {"a","b","c","d","e","f","g","h","i","j","k","l","m",
   "n","o","p","q","r","s","t","u","v","w","x","y","z"}

UpperCase ==
  {"A","B","C","D","E","F","G","H","I","J","K","L","M",
   "N","O","P","Q","R","S","T","U","V","W","X","Y","Z"}

DigitChars == {"0","1","2","3","4","5","6","7","8","9"}

\* RegExp.prototype.test converts its argument to a string: past the end of
\* the input char() is undefined and the text tested is "undefined".
\* spaceRE = /\s/i
spaceRE(c) == c \in {" ", "\n", "\t", "\r"}

\* keywordFirstCharRE = /[a-z]/i; "undefined" contains letters
keywordFirstCharRE(c) == c = UNDEF \/ c \in LowerCase \cup UpperCase

\* keywordOtherCharRE = /[a-z0-9]/i
keywordOtherCharRE(c) == c = UNDEF \/ c \in LowerCase \cup UpperCase \cup DigitChars

\* numberFirstCharRE = /[-0-9]/; "undefined" has neither
numberFirstCharRE(c) == c \in DigitChars \cup {"-"}

\* numberOtherCharRE = /[-+.0-9e]/i; "undefined" contains an e
numberOtherCharRE(c) == c = UNDEF \/ c \in DigitChars \cup {"-", "+", ".", "e", "E"}

\* State.char(): this.str[this.pos]
char(s, p) == IF p >= 0 /\ p < Len(s) THEN s[p + 1] ELSE UNDEF

-----------------------------------------------------------------------------
(* JavaScript values.                                                      *)
Null == [t |-> "null"]
Undefined == [t |-> "undefined"]
NaN == [t |-> "nan"]
Real == [t |-> "real"]
Num(n) == [t |-> "num", v |-> n]
Str(s) == [t |-> "str", v |-> s]
Bool(b) == [t |-> "bool", v |-> b]
Ref(a) == [t |-> "ref", a |-> a]
Arr(cls, elems) == [t |-> "arr", cls |-> cls, v |-> elems]
Obj(f) == [t |-> "obj", f |-> f]

IsNum(x) == x.t = "num"
IsKw(x, k) == x.t = "str" /\ x.v = k

\* ToBoolean
Truthy(x) ==
  CASE x.t = "num" -> x.v # 0
    [] x.t = "str" -> Len(x.v) > 0
    [] x.t = "bool" -> x.v
    [] x.t \in {"null", "undefined", "nan"} -> FALSE
    [] OTHER -> TRUE

\* a property key: obj[null] is obj["null"]
KeyOf(x) == IF x.t = "str" THEN x.v ELSE kwNull

Get(o, k) == IF k \in DOMAIN o.f THEN o.f[k] ELSE Undefined
Has(o, k) == k \in DOMAIN o.f
Put(o, k, x) == Obj([y \in DOMAIN o.f \cup {k} |-> IF y = k THEN x ELSE o.f[y]])
Del(o, k) == Obj([y \in DOMAIN o.f \ {k} |-> o.f[y]])
EmptyObj == Obj(<< >>)

RECURSIVE BitOrNat(_, _)
BitOrNat(a, b) ==
  IF a = 0 THEN b
  ELSE IF b = 0 THEN a
  ELSE (IF a % 2 = 1 \/ b % 2 = 1 THEN 1 ELSE 0) + 2 * BitOrNat(a \div 2, b \div 2)

RECURSIVE BitAndNat(_, _)
BitAndNat(a, b) ==
  IF a = 0 \/ b = 0 THEN 0
  ELSE (IF a % 2 = 1 /\ b % 2 = 1 THEN 1 ELSE 0) + 2 * BitAndNat(a \div 2, b \div 2)

\* a | b on 32-bit two's complement integers (~x is -x - 1)
BitOrInt(a, b) ==
  CASE a >= 0 /\ b >= 0 -> BitOrNat(a, b)
    [] a < 0 /\ b >= 0 -> -((-a - 1) - BitAndNat(-a - 1, b)) - 1
    [] a >= 0 /\ b < 0 -> -((-b - 1) - BitAndNat(-b - 1, a)) - 1
    [] OTHER -> -BitAndNat(-a - 1, -b - 1) - 1

RECURSIVE DecimalValue(_, _)
\* the value of a text of decimal digits, -1 when it has another character
DecimalValue(t, acc) ==
  IF Len(t) = 0 THEN acc
  ELSE IF Head(t) \notin {"0","1","2","3","4","5","6","7","8","9"} THEN -1
  ELSE DecimalValue(Tail(t), 10 * acc + (CHOOSE d \in 0..9 : ToString(d) = Head(t)))

\* ToInt32 of a value.  Every tracked number is an integer below 2^31 in
\* magnitude; the result for a number that is not tracked is not tracked.
ToInt32(x) ==
  CASE x.t = "num" -> x
    [] x.t \in {"real", "arr"} -> Real
    [] x.t = "str" -> IF DecimalValue(x.v, 0) >= 0 THEN Num(DecimalValue(x.v, 0)) ELSE Num(0)
    [] x.t = "bool" -> Num(IF x.v THEN 1 ELSE 0)
    [] OTHER -> Num(0)

\* an `x = y' in the place of `x |= y'
BitOrAssigns(x, y) == y

\* a | b on values
BitOr(x, y) ==
  IF ToInt32(x).t = "real" \/ ToInt32(y).t = "real" THEN Real
  ELSE Num(BitOrInt(ToInt32(x).v, ToInt32(y).v))

\* x modulo 2^bits of a value that a Uint16Array or Uint8Array stores
ToUintN(x, bits) == IF x.t = "num" THEN x.v % (2 ^ bits) ELSE 0

\* what a typed array keeps of a value written into it; a float32 holds
\* every integer up to 2^24
Float32Limit == 2 ^ 24

Convert(cls, x) ==
  CASE cls = "Float32Array" ->
         (CASE x.t = "num" -> IF x.v <= Float32Limit /\ -x.v <= Float32Limit THEN x ELSE Real
            [] x.t \in {"null"} -> Num(0)
            [] x.t = "real" -> Real
            [] OTHER -> NaN)
    [] cls = "Int32Array" -> IF x.t = "real" THEN Real ELSE IF x.t = "num" THEN x ELSE Num(0)
    [] cls = "Uint32Array" ->
         IF x.t = "real" \/ (x.t = "num" /\ x.v < 0) THEN Real ELSE IF x.t = "num" THEN x ELSE Num(0)
    [] cls = "Uint16Array" -> IF x.t = "real" THEN Real ELSE Num(ToUintN(x, 16))
    [] cls = "Uint8Array" -> IF x.t = "real" THEN Real ELSE Num(ToUintN(x, 8))
    [] OTHER -> x

\* arr[i] = x: a typed array has a fixed length and ignores a write past its
\* end; a plain array grows
SetAt(arr, i, x) ==
  IF i < Len(arr.v)
  THEN Arr(arr.cls, [arr.v EXCEPT ![i + 1] = Convert(arr.cls, x)])
  ELSE IF arr.cls = "Array" /\ i = Len(arr.v) THEN Arr(arr.cls, Append(arr.v, x))
  ELSE arr

\* new Float32Array(n) and the like: n zeros
NewTyped(cls, n) == Arr(cls, [i \in 1..n |-> Num(0)])

\* the length a typed-array constructor makes of its argument (ToIndex);
\* -1 stands for the RangeError of a negative length
TypedLength(x) == IF x.t = "num" THEN (IF x.v < 0 THEN -1 ELSE x.v) ELSE 0

\* a reverse that leaves the array in the order it has
reverseInPlaceLost(arr) == arr

\* Array.prototype.reverse / TypedArray.prototype.reverse
reverse(arr) == Arr(arr.cls, [i \in 1..Len(arr.v) |-> arr.v[Len(arr.v) + 1 - i]])

\* `const x = v; ...': the rest of a function body, written as the function
\* [x \in {v} |-> rest], taken at v
Let(f) == f[CHOOSE v \in DOMAIN f : TRUE]

-----------------------------------------------------------------------------
(* Results of the readers.                                                 *)
Ok(p, x) == [ex |-> "none", pos |-> p, val |-> x]
Fail(kind, p) == [ex |-> kind, pos |-> p, val |-> Null]

\* throwError: throw new Error(`SyntaxError, near ${state.pos}` ...)
throwError(p) == Fail("SyntaxError", p)

-----------------------------------------------------------------------------
(* Scanner.                                                                *)
RECURSIVE CommentRest(_, _)
CommentRest(s, p) ==
  IF p < Len(s)
  THEN IF char(s, p + 1) # "\n" THEN CommentRest(s, p + 1) ELSE p + 1
  ELSE p

\* parseComment: the position after one comment, or -1 when there is none
parseComment(s, p) ==
  IF char(s, p) = "/" /\ char(s, p + 1) = "/"
  THEN CommentRest(s, p + 2) + 1
  ELSE -1

RECURSIVE parseSpace(_, _)
parseSpace(s, p) == IF spaceRE(char(s, p)) THEN parseSpace(s, p + 1) ELSE p

RECURSIVE KeywordEnd(_, _)
KeywordEnd(s, p) ==
  IF p >= Len(s) THEN -1
  ELSE IF keywordOtherCharRE(char(s, p)) THEN KeywordEnd(s, p + 1) ELSE p

parseKeyword(s, p) ==
  IF ~keywordFirstCharRE(char(s, p)) THEN Ok(p, Null)
  ELSE IF char(s, p) = UNDEF THEN Fail("hang", p)
  ELSE Let([e \in {KeywordEnd(s, p + 1)} |->
           IF e = -1 THEN Fail("exhaust", Len(s))
           ELSE Ok(parseSpace(s, e), Str(SubSeq(s, p + 1, e)))])

parseSymbol(s, p, symbol) ==
  IF char(s, p) = symbol THEN parseSpace(s, p + 1) ELSE p

strictParseSymbol(s, p, symbol) ==
  IF char(s, p) # symbol THEN throwError(p) ELSE Ok(parseSpace(s, p + 1), Null)

RECURSIVE StringEnd(_, _)
StringEnd(s, p) ==
  IF p >= Len(s) THEN -1
  ELSE IF s[p + 1] # "\"" THEN StringEnd(s, p + 1) ELSE p

parseString(s, p) ==
  IF char(s, p) = "\""
  THEN Let([e \in {StringEnd(s, p + 1)} |->
           IF e = -1 THEN Fail("hang", Len(s))
           ELSE Ok(parseSpace(s, e + 1), Str(SubSeq(s, p + 2, e)))])
  ELSE Ok(p, Null)

RECURSIVE NumberEnd(_, _)
NumberEnd(s, p) ==
  IF p >= Len(s) THEN -1
  ELSE IF numberOtherCharRE(char(s, p)) THEN NumberEnd(s, p + 1) ELSE p

DigitValue(c) ==
  CASE c = "0" -> 0 [] c = "1" -> 1 [] c = "2" -> 2 [] c = "3" -> 3 [] c = "4" -> 4
    [] c = "5" -> 5 [] c = "6" -> 6 [] c = "7" -> 7 [] c = "8" -> 8 [] c = "9" -> 9

RECURSIVE DigitRun(_, _, _)
\* <<value, number of digits>> of the run of digits that starts at t[i]
DigitRun(t, i, acc) ==
  IF i <= Len(t) /\ t[i] \in DigitChars
  THEN DigitRun(t, i + 1, <<10 * acc[1] + DigitValue(t[i]), acc[2] + 1>>)
  ELSE acc

\* parseFloat of a text made of the characters of numberOtherCharRE that
\* starts with a digit or a minus: the longest prefix that is a decimal
\* literal.  A literal with a fraction or an exponent is a number whose value
\* is not tracked (Real).
parseFloat(t) ==
  Let([neg \in {Len(t) > 0 /\ t[1] = "-"} |->
  Let([from \in {IF neg THEN 2 ELSE 1} |->
  Let([run \in {DigitRun(t, from, <<0, 0>>)} |->
  Let([next \in {from + run[2]} |->
  Let([after \in {IF next <= Len(t) THEN t[next] ELSE UNDEF} |->
  Let([after2 \in {IF next + 1 <= Len(t) THEN t[next + 1] ELSE UNDEF} |->
  Let([after3 \in {IF next + 2 <= Len(t) THEN t[next + 2] ELSE UNDEF} |->
      IF run[2] = 0
      THEN (IF after = "." /\ after2 \in DigitChars THEN Real ELSE NaN)
      ELSE IF after = "." /\ after2 \in DigitChars THEN Real
      ELSE IF after = "." /\ after2 \in {"e", "E"} /\
              (after3 \in DigitChars \/ (after3 \in {"+", "-"} /\ next + 3 <= Len(t)
                                         /\ t[next + 3] \in DigitChars)) THEN Real
      ELSE IF after \in {"e", "E"} /\
              (after2 \in DigitChars \/ (after2 \in {"+", "-"} /\ after3 \in DigitChars)) THEN Real
      ELSE Num(IF neg THEN -run[1] ELSE run[1])])])])])])])])

parseNumber(s, p) ==
  IF numberFirstCharRE(char(s, p))
  THEN Let([e \in {NumberEnd(s, p + 1)} |->
           IF e = -1 THEN Fail("hang", Len(s))
           ELSE Ok(parseSpace(s, e), parseFloat(SubSeq(s, p + 1, e)))])
  ELSE Ok(p, Null)

-----------------------------------------------------------------------------
(* Numeric arrays.                                                         *)
RECURSIVE ArrayItems(_, _, _, _)
\* the loop of parseArray and parseArrayOrSingleItem (mdl.ts:133-143)
ArrayItems(s, p, arr, i) ==
  IF char(s, p) = "}" THEN Ok(p, arr)
  ELSE Let([num \in {parseNumber(s, p)} |->
           IF num.ex # "none" THEN num
           ELSE IF num.val.t = "null" THEN throwError(num.pos)
           ELSE ArrayItems(s, parseSymbol(s, num.pos, ","), SetAt(arr, i, num.val), i + 1)])

\* parseArray(state, arr, pos); arr = Undefined stands for the call without
\* a buffer, which fills a fresh plain array from index 0
parseArray(s, p, arr, start) ==
  IF char(s, p) # "{" THEN Ok(p, Null)
  ELSE LET buf == IF arr.t = "undefined" THEN Arr("Array", << >>) ELSE arr
           from == IF arr.t = "undefined" THEN 0 ELSE start
           open == strictParseSymbol(s, p, "{")
       IN
       Let([items \in {ArrayItems(s, open.pos, buf, from)} |->
           IF items.ex # "none" THEN items
           ELSE Let([close \in {strictParseSymbol(s, items.pos, "}")} |->
                    IF close.ex # "none" THEN close ELSE Ok(close.pos, items.val)])])

parseArrayOrSingleItem(s, p, arr) ==
  IF char(s, p) # "{"
  THEN Let([num \in {parseNumber(s, p)} |->
           IF num.ex # "none" THEN num ELSE Ok(num.pos, SetAt(arr, 0, num.val))])
  ELSE LET open == strictParseSymbol(s, p, "{")
       IN
       Let([items \in {ArrayItems(s, open.pos, arr, 0)} |->
           IF items.ex # "none" THEN items
           ELSE Let([close \in {strictParseSymbol(s, items.pos, "}")} |->
                    IF close.ex # "none" THEN close ELSE Ok(close.pos, items.val)])])

-----------------------------------------------------------------------------
(* Generic block reader.                                                   *)
\* the value of one key of parseObject (mdl.ts:201-212)
ObjectValue(s, p, keyword) ==
  IF keyword = kwInterval THEN parseArray(s, p, NewTyped("Uint32Array", 2), 0)
  ELSE IF keyword \in {kwMinimumExtent, kwMaximumExtent}
  THEN parseArray(s, p, NewTyped("Float32Array", 3), 0)
  ELSE Let([a \in {parseArray(s, p, Undefined, 0)} |->
           IF a.ex # "none" THEN a
           ELSE Let([first \in {IF Truthy(a.val) THEN a ELSE parseString(s, a.pos)} |->
                    IF first.ex # "none" THEN first
                    ELSE IF first.val.t = "null" THEN parseNumber(s, first.pos)
                    ELSE first])])

RECURSIVE ObjectBody(_, _, _)
ObjectBody(s, p, obj) ==
  IF char(s, p) = "}" THEN Ok(p, obj)
  ELSE Let([k \in {parseKeyword(s, p)} |->
           IF k.ex # "none" THEN k
           ELSE IF ~Truthy(k.val) THEN throwError(k.pos)
           ELSE Let([v \in {ObjectValue(s, k.pos, k.val.v)} |->
                    IF v.ex # "none" THEN v
                    ELSE ObjectBody(s, parseSymbol(s, v.pos, ","), Put(obj, k.val.v, v.val))])])

\* parseObject returns [prefix, obj]
parseObject(s, p) ==
  Let([pre \in {IF char(s, p) # "{"
             THEN Let([q \in {parseString(s, p)} |->
                      IF q.ex # "none" THEN q
                      ELSE IF q.val.t # "null" THEN q
                      ELSE Let([n \in {parseNumber(s, q.pos)} |->
                               IF n.ex # "none" THEN n
                               ELSE IF n.val.t = "null" THEN throwError(n.pos)
                               ELSE n])])
             ELSE Ok(p, Null)} |->
      IF pre.ex # "none" THEN pre
      ELSE Let([open \in {strictParseSymbol(s, pre.pos, "{")} |->
               IF open.ex # "none" THEN open
               ELSE Let([body \in {ObjectBody(s, open.pos, EmptyObj)} |->
                        IF body.ex # "none" THEN body
                        ELSE Let([close \in {strictParseSymbol(s, body.pos, "}")} |->
                                 IF close.ex # "none" THEN close
                                 ELSE Ok(close.pos, [prefix |-> pre.val, obj |-> body.val])])])])])

-----------------------------------------------------------------------------
(* Results of the handlers: the cursor, the scene and the heap they leave. *)
HOk(p, m, h) == [ex |-> "none", pos |-> p, model |-> m, heap |-> h]
HFail(r, m, h) == [ex |-> r.ex, pos |-> r.pos, model |-> m, heap |-> h]

\* a new object on the heap; its address is the new length of the heap
Alloc(h, o) == Append(h, o)
Top(h) == Ref(Len(h))

\* JavaScript arrays of the scene: a length, the populated indices and the
\* properties set under keys that are no array index
EmptyList == [length |-> 0, at |-> << >>, props |-> << >>]
IsIndex(x) == x.t = "num" /\ x.v >= 0

\* a list[key] = x that appends, whatever the key
ListSetAtEnd(list, key, x) ==
  [list EXCEPT !.length = @ + 1,
               !.at = [i \in DOMAIN @ \cup {list.length} |-> IF i = list.length THEN x ELSE @[i]]]

\* list[key] = x
ListSet(list, key, x) ==
  IF IsIndex(key)
  THEN [list EXCEPT !.length = IF key.v + 1 > @ THEN key.v + 1 ELSE @,
                    !.at = [i \in DOMAIN @ \cup {key.v} |-> IF i = key.v THEN x ELSE @[i]]]
  ELSE [list EXCEPT !.props = Append(@, <<key, x>>)]

\* list.push(x)
push(list, x) == ListSet(list, Num(list.length), x)

\* list[i], undefined at a hole and past the end
ListGet(list, i) == IF i \in DOMAIN list.at THEN list.at[i] ELSE Undefined

\* the elements of a list in index order, holes left out
RECURSIVE ListFrom(_, _)
ListFrom(list, i) ==
  IF i >= list.length THEN << >>
  ELSE (IF i \in DOMAIN list.at THEN <<list.at[i]>> ELSE << >>) \o ListFrom(list, i + 1)
Elements(list) == ListFrom(list, 0)

\* a fresh array filled by push only
RECURSIVE ListOf(_)
ListOf(seq) == IF seq = << >> THEN EmptyList ELSE push(ListOf(SubSeq(seq, 1, Len(seq) - 1)), seq[Len(seq)])

-----------------------------------------------------------------------------
(* Enumerations of ../model.                                               *)
TextureFlags(k) == CASE k = kwWrapWidth -> 1 [] k = kwWrapHeight -> 2

LineType(k) == CASE k = kwDontInterp -> 0 [] k = kwLinear -> 1 [] k = kwHermite -> 2 [] k = kwBezier -> 3

-----------------------------------------------------------------------------
(* Version, Model, Sequences, Textures.                                    *)
parseVersion(s, p, m, h) ==
  Let([r \in {parseObject(s, p)} |->
      IF r.ex # "none" THEN HFail(r, m, h)
      ELSE IF Truthy(Get(r.val.obj, kwFormatVersion))
      THEN HOk(r.pos, [m EXCEPT !.Version = Get(r.val.obj, kwFormatVersion)], h)
      ELSE HOk(r.pos, m, h)])

parseModelInfo(s, p, m, h) ==
  Let([r \in {parseObject(s, p)} |->
      IF r.ex # "none" THEN HFail(r, m, h)
      ELSE HOk(r.pos, [m EXCEPT !.Info = Put(r.val.obj, kwName, r.val.prefix)], h)])

RECURSIVE SequencesBody(_, _, _, _)
\* the loop of parseSequences (mdl.ts:244-252); res is the list of addresses
SequencesBody(s, p, res, h) ==
  IF char(s, p) = "}" THEN [ex |-> "none", pos |-> p, val |-> res, heap |-> h]
  ELSE Let([k \in {parseKeyword(s, p)} |->
           IF k.ex # "none" THEN [ex |-> k.ex, pos |-> k.pos, val |-> res, heap |-> h]
           ELSE Let([r \in {parseObject(s, k.pos)} |->
                    IF r.ex # "none" THEN [ex |-> r.ex, pos |-> r.pos, val |-> res, heap |-> h]
                    ELSE Let([named \in {Put(r.val.obj, kwName, r.val.prefix)} |->
                         LET obj == Put(named, kwNonLooping, Bool(Has(named, kwNonLooping)))
                         IN  SequencesBody(s, r.pos, push(res, Ref(Len(h) + 1)), Alloc(h, obj))])])])

parseSequences(s, p, m, h) ==
  Let([count \in {parseNumber(s, p)} |->
      IF count.ex # "none" THEN HFail(count, m, h)
      ELSE Let([open \in {strictParseSymbol(s, count.pos, "{")} |->
               IF open.ex # "none" THEN HFail(open, m, h)
               ELSE Let([body \in {SequencesBody(s, open.pos, EmptyList, h)} |->
                        IF body.ex # "none" THEN HFail(body, m, h)
                        ELSE Let([close \in {strictParseSymbol(s, body.pos, "}")} |->
                                 IF close.ex # "none" THEN HFail(close, m, h)
                                 ELSE HOk(close.pos, [m EXCEPT !.Sequences = body.val], body.heap)])])])])

\* obj.Flags += TextureFlags.X; delete obj.X
TextureFlag(obj, k) ==
  IF Has(obj, k)
  THEN Del(Put(obj, kwFlags, Num(Get(obj, kwFlags).v + TextureFlags(k))), k)
  ELSE obj

RECURSIVE TexturesBody(_, _, _, _)
TexturesBody(s, p, res, h) ==
  IF char(s, p) = "}" THEN [ex |-> "none", pos |-> p, val |-> res, heap |-> h]
  ELSE Let([k \in {parseKeyword(s, p)} |->
           IF k.ex # "none" THEN [ex |-> k.ex, pos |-> k.pos, val |-> res, heap |-> h]
           ELSE Let([r \in {parseObject(s, k.pos)} |->
                    IF r.ex # "none" THEN [ex |-> r.ex, pos |-> r.pos, val |-> res, heap |-> h]
                    ELSE LET obj == TextureFlag(TextureFlag(Put(r.val.obj, kwFlags, Num(0)),
                                                            kwWrapWidth), kwWrapHeight)
                         IN  TexturesBody(s, r.pos, push(res, Ref(Len(h) + 1)), Alloc(h, obj))])])

parseTextures(s, p, m, h) ==
  Let([count \in {parseNumber(s, p)} |->
      IF count.ex # "none" THEN HFail(count, m, h)
      ELSE Let([open \in {strictParseSymbol(s, count.pos, "{")} |->
               IF open.ex # "none" THEN HFail(open, m, h)
               ELSE Let([body \in {TexturesBody(s, open.pos, EmptyList, h)} |->
                        IF body.ex # "none" THEN HFail(body, m, h)
                        ELSE Let([close \in {strictParseSymbol(s, body.pos, "}")} |->
                                 IF close.ex # "none" THEN HFail(close, m, h)
                                 ELSE HOk(close.pos, [m EXCEPT !.Textures = body.val], body.heap)])])])])

-----------------------------------------------------------------------------
(* Animated tracks.                                                        *)
\* an animVectorSize that gives every channel the size of FLOAT3
animVectorSizeFloat3(type) == 3

\* enum AnimVectorType and animVectorSize (mdl.ts:288-300)
animVectorSize(type) ==
  CASE type = "INT1" -> 1 [] type = "FLOAT1" -> 1 [] type = "FLOAT3" -> 3 [] type = "FLOAT4" -> 4

VectorClass(type) == IF type = "INT1" THEN "Int32Array" ELSE "Float32Array"

\* parseArrayOrSingleItem(state, new Vector(itemCount)) then strictParseSymbol(state, ',')
KeyframeItem(s, p, type) ==
  Let([item \in {parseArrayOrSingleItem(s, p, NewTyped(VectorClass(type), animVectorSize(type)))} |->
      IF item.ex # "none" THEN item
      ELSE Let([comma \in {strictParseSymbol(s, item.pos, ",")} |->
               IF comma.ex # "none" THEN comma ELSE Ok(comma.pos, item.val)])])

parseAnimKeyframe(s, p, frame, type, lineType) ==
  Let([vector \in {KeyframeItem(s, p, type)} |->
      IF vector.ex # "none" THEN vector
      ELSE IF lineType \in {LineType(kwHermite), LineType(kwBezier)}
      THEN Let([k1 \in {parseKeyword(s, vector.pos)} |->
               IF k1.ex # "none" THEN k1
               ELSE Let([inTan \in {KeyframeItem(s, k1.pos, type)} |->
                        IF inTan.ex # "none" THEN inTan
                        ELSE Let([k2 \in {parseKeyword(s, inTan.pos)} |->
                                 IF k2.ex # "none" THEN k2
                                 ELSE Let([outTan \in {KeyframeItem(s, k2.pos, type)} |->
                                          IF outTan.ex # "none" THEN outTan
                                          ELSE Ok(outTan.pos,
                                                  [Frame |-> frame, Vector |-> vector.val,
                                                   InTan |-> inTan.val, OutTan |-> outTan.val])])])])])
      ELSE Ok(vector.pos, [Frame |-> frame, Vector |-> vector.val])])

RECURSIVE AnimVectorBody(_, _, _, _)
\* a loop of parseAnimVector that ends after its first keyframe
AnimVectorBodyOneKey(s, p, type, animVector) ==
  IF char(s, p) = "}" THEN Ok(p, animVector)
  ELSE Let([k \in {parseKeyword(s, p)} |->
           IF k.ex # "none" THEN k
           ELSE IF IsKw(k.val, kwGlobalSeqId)
           THEN Let([n \in {parseNumber(s, k.pos)} |->
                    IF n.ex # "none" THEN n
                    ELSE Let([comma \in {strictParseSymbol(s, n.pos, ",")} |->
                             IF comma.ex # "none" THEN comma
                             ELSE AnimVectorBody(s, comma.pos, type,
                                                 [animVector EXCEPT !.GlobalSeqId = n.val])])])
           ELSE Let([frame \in {parseNumber(s, k.pos)} |->
                    IF frame.ex # "none" THEN frame
                    ELSE IF frame.val.t = "null" THEN throwError(frame.pos)
                    ELSE Let([colon \in {strictParseSymbol(s, frame.pos, ":")} |->
                             IF colon.ex # "none" THEN colon
                             ELSE Let([key \in {parseAnimKeyframe(s, colon.pos, frame.val, type,
                                                               animVector.LineType)} |->
                                      IF key.ex # "none" THEN key
                                      ELSE Ok(key.pos, [animVector EXCEPT !.Keys = Append(@, key.val)])])])])])

\* the loop of parseAnimVector (mdl.ts:346-363)
AnimVectorBody(s, p, type, animVector) ==
  IF char(s, p) = "}" THEN Ok(p, animVector)
  ELSE Let([k \in {parseKeyword(s, p)} |->
           IF k.ex # "none" THEN k
           ELSE IF IsKw(k.val, kwGlobalSeqId)
           THEN Let([n \in {parseNumber(s, k.pos)} |->
                    IF n.ex # "none" THEN n
                    ELSE Let([comma \in {strictParseSymbol(s, n.pos, ",")} |->
                             IF comma.ex # "none" THEN comma
                             ELSE AnimVectorBody(s, comma.pos, type,
                                                 [animVector EXCEPT !.GlobalSeqId = n.val])])])
           ELSE Let([frame \in {parseNumber(s, k.pos)} |->
                    IF frame.ex # "none" THEN frame
                    ELSE IF frame.val.t = "null" THEN throwError(frame.pos)
                    ELSE Let([colon \in {strictParseSymbol(s, frame.pos, ":")} |->
                             IF colon.ex # "none" THEN colon
                             ELSE Let([key \in {parseAnimKeyframe(s, colon.pos, frame.val, type,
                                                               animVector.LineType)} |->
                                      IF key.ex # "none" THEN key
                                      ELSE AnimVectorBody(s, key.pos, type,
                                             [animVector EXCEPT !.Keys = Append(@, key.val)])])])])])

parseAnimVector(s, p, type) ==
  Let([count \in {parseNumber(s, p)} |->
      IF count.ex # "none" THEN count
      ELSE Let([open \in {strictParseSymbol(s, count.pos, "{")} |->
               IF open.ex # "none" THEN open
               ELSE Let([lineType \in {parseKeyword(s, open.pos)} |->
                        IF lineType.ex # "none" THEN lineType
                        ELSE LET animVector == [t |-> "anim",
                                    LineType |-> IF lineType.val.t = "str" /\ lineType.val.v \in
                                                      {kwDontInterp, kwLinear, kwHermite, kwBezier}
                                                 THEN LineType(lineType.val.v)
                                                 ELSE LineType(kwDontInterp),
                                    GlobalSeqId |-> Null,
                                    Keys |-> << >>]
                             IN
                             Let([comma \in {strictParseSymbol(s, lineType.pos, ",")} |->
                                 IF comma.ex # "none" THEN comma
                                 ELSE Let([body \in {AnimVectorBody(s, comma.pos, type, animVector)} |->
                                          IF body.ex # "none" THEN body
                                          ELSE Let([close \in {strictParseSymbol(s, body.pos, "}")} |->
                                                   IF close.ex # "none" THEN close
                                                   ELSE Ok(close.pos, body.val)])])])])])])

\* key.Vector.reverse(); if (key.InTan) { key.InTan.reverse(); key.OutTan.reverse(); }
ReverseKey(key) ==
  IF "InTan" \in DOMAIN key
  THEN [key EXCEPT !.Vector = reverse(@), !.InTan = reverse(@), !.OutTan = reverse(@)]
  ELSE [key EXCEPT !.Vector = reverse(@)]

ReverseKeys(animVector) ==
  [animVector EXCEPT !.Keys = [i \in 1..Len(@) |-> ReverseKey(@[i])]]

\* let temp = color[0]; color[0] = color[2]; color[2] = temp;
SwapColor(color) == Arr(color.cls, [color.v EXCEPT ![1] = color.v[3], ![3] = color.v[1]])

-----------------------------------------------------------------------------
(* The `static' prefix: keyword = parseKeyword(state) after `static'.      *)
StaticPrefix(s, k) ==
  IF IsKw(k.val, kwStatic)
  THEN Let([k2 \in {parseKeyword(s, k.pos)} |->
           [ex |-> k2.ex, pos |-> k2.pos, val |-> k2.val, isStatic |-> TRUE]])
  ELSE [ex |-> k.ex, pos |-> k.pos, val |-> k.val, isStatic |-> FALSE]

KwIn(x, set) == x.t = "str" /\ x.v \in set

-----------------------------------------------------------------------------
(* Materials.                                                              *)
LayerShading(k) ==
  CASE k = kwUnshaded -> 1 [] k = kwSphereEnvMap -> 2 [] k = kwTwoSided -> 16
    [] k = kwUnfogged -> 32 [] k = kwNoDepthTest -> 64 [] k = kwNoDepthSet -> 128

FilterMode(k) ==
  CASE k = kwNone -> 0 [] k = kwTransparent -> 1 [] k = kwBlend -> 2 [] k = kwAdditive -> 3
    [] k = kwAddAlpha -> 4 [] k = kwModulate -> 5 [] k = kwModulate2x -> 6

MaterialRenderMode(k) ==
  CASE k = kwConstantColor -> 1 [] k = kwSortPrimsFarZ -> 16 [] k = kwFullResolution -> 32

\* one entry of a Layer body (mdl.ts:393-417): the cursor and the layer
LayerEntry(s, p, keyword, isStatic, res) ==
  IF ~isStatic /\ IsKw(keyword, kwTextureID)
  THEN Let([a \in {parseAnimVector(s, p, "INT1")} |->
           IF a.ex # "none" THEN a ELSE Ok(a.pos, Put(res, kwTextureID, a.val))])
  ELSE IF ~isStatic /\ IsKw(keyword, kwAlpha)
  THEN Let([a \in {parseAnimVector(s, p, "FLOAT1")} |->
           IF a.ex # "none" THEN a ELSE Ok(a.pos, Put(res, kwAlpha, a.val))])
  ELSE IF KwIn(keyword, {kwUnshaded, kwSphereEnvMap, kwTwoSided, kwUnfogged,
                         kwNoDepthTest, kwNoDepthSet})
  THEN Ok(p, Put(res, kwShading, BitOr(Get(res, kwShading), Num(LayerShading(keyword.v)))))
  ELSE IF IsKw(keyword, kwFilterMode)
  THEN Let([val \in {parseKeyword(s, p)} |->
           IF val.ex # "none" THEN val
           ELSE IF KwIn(val.val, {kwNone, kwTransparent, kwBlend, kwAdditive, kwAddAlpha,
                                  kwModulate, kwModulate2x})
           THEN Ok(val.pos, Put(res, kwFilterMode, Num(FilterMode(val.val.v))))
           ELSE Ok(val.pos, res)])
  ELSE IF IsKw(keyword, kwTVertexAnimId)
  THEN Let([n \in {parseNumber(s, p)} |->
           IF n.ex # "none" THEN n ELSE Ok(n.pos, Put(res, kwTVertexAnimId, n.val))])
  ELSE Let([n \in {parseNumber(s, p)} |->
           IF n.ex # "none" THEN n
           ELSE IF n.val.t = "null"
           THEN Let([w \in {parseKeyword(s, n.pos)} |->
                    IF w.ex # "none" THEN w ELSE Ok(w.pos, Put(res, KeyOf(keyword), w.val))])
           ELSE Ok(n.pos, Put(res, KeyOf(keyword), n.val))])

RECURSIVE LayerBody(_, _, _)
LayerBody(s, p, res) ==
  IF char(s, p) = "}" THEN Ok(p, res)
  ELSE Let([k \in {parseKeyword(s, p)} |->
           IF k.ex # "none" THEN k
           ELSE IF ~Truthy(k.val) THEN throwError(k.pos)
           ELSE Let([sk \in {StaticPrefix(s, k)} |->
                    IF sk.ex # "none" THEN Fail(sk.ex, sk.pos)
                    ELSE Let([e \in {LayerEntry(s, sk.pos, sk.val, sk.isStatic, res)} |->
                             IF e.ex # "none" THEN e
                             ELSE LayerBody(s, parseSymbol(s, e.pos, ","), e.val)])])])

parseLayer(s, p) ==
  LET res == Obj([k \in {kwAlpha, kwTVertexAnimId, kwShading, kwCoordId} |->
                    IF k \in {kwAlpha, kwTVertexAnimId} THEN Null ELSE Num(0)])
  IN
  Let([open \in {strictParseSymbol(s, p, "{")} |->
      IF open.ex # "none" THEN open
      ELSE Let([body \in {LayerBody(s, open.pos, res)} |->
               IF body.ex # "none" THEN body
               ELSE Let([close \in {strictParseSymbol(s, body.pos, "}")} |->
                        IF close.ex # "none" THEN close ELSE Ok(close.pos, body.val)])])])

RECURSIVE MaterialBody(_, _, _)
\* the inner loop of parseMaterials (mdl.ts:444-462)
MaterialBody(s, p, obj) ==
  IF char(s, p) = "}" THEN Ok(p, obj)
  ELSE Let([k \in {parseKeyword(s, p)} |->
           IF k.ex # "none" THEN k
           ELSE IF ~Truthy(k.val) THEN throwError(k.pos)
           ELSE IF IsKw(k.val, kwLayer)
           THEN Let([l \in {parseLayer(s, k.pos)} |->
                    IF l.ex # "none" THEN l
                    ELSE MaterialBody(s, parseSymbol(s, l.pos, ","),
                           Put(obj, kwLayers, Arr("Array", Append(Get(obj, kwLayers).v, l.val))))])
           ELSE IF IsKw(k.val, kwPriorityPlane)
           THEN Let([n \in {parseNumber(s, k.pos)} |->
                    IF n.ex # "none" THEN n
                    ELSE MaterialBody(s, parseSymbol(s, n.pos, ","), Put(obj, kwPriorityPlane, n.val))])
           ELSE IF KwIn(k.val, {kwConstantColor, kwSortPrimsFarZ, kwFullResolution})
           THEN MaterialBody(s, parseSymbol(s, k.pos, ","),
                  Put(obj, kwRenderMode,
                      BitOr(Get(obj, kwRenderMode), Num(MaterialRenderMode(k.val.v)))))
           ELSE Fail("Error", k.pos)])

RECURSIVE MaterialsBody(_, _, _, _)
\* the outer loop of parseMaterials (mdl.ts:434-467)
MaterialsBody(s, p, res, h) ==
  IF char(s, p) = "}" THEN [ex |-> "none", pos |-> p, val |-> res, heap |-> h]
  ELSE Let([k \in {parseKeyword(s, p)} |->
           IF k.ex # "none" THEN [ex |-> k.ex, pos |-> k.pos, val |-> res, heap |-> h]
           ELSE Let([open \in {strictParseSymbol(s, k.pos, "{")} |->
                    IF open.ex # "none" THEN [ex |-> open.ex, pos |-> open.pos, val |-> res, heap |-> h]
                    ELSE LET obj == Obj([x \in {kwRenderMode, kwLayers} |->
                                           IF x = kwRenderMode THEN Num(0) ELSE Arr("Array", << >>)])
                         IN
                         Let([body \in {MaterialBody(s, open.pos, obj)} |->
                             IF body.ex # "none"
                             THEN [ex |-> body.ex, pos |-> body.pos, val |-> res, heap |-> h]
                             ELSE Let([close \in {strictParseSymbol(s, body.pos, "}")} |->
                                      IF close.ex # "none"
                                      THEN [ex |-> close.ex, pos |-> close.pos, val |-> res, heap |-> h]
                                      ELSE MaterialsBody(s, close.pos, push(res, Ref(Len(h) + 1)),
                                                         Alloc(h, body.val))])])])])

parseMaterials(s, p, m, h) ==
  Let([count \in {parseNumber(s, p)} |->
      IF count.ex # "none" THEN HFail(count, m, h)
      ELSE Let([open \in {strictParseSymbol(s, count.pos, "{")} |->
               IF open.ex # "none" THEN HFail(open, m, h)
               ELSE Let([body \in {MaterialsBody(s, open.pos, EmptyList, h)} |->
                        IF body.ex # "none" THEN HFail(body, m, h)
                        ELSE Let([close \in {strictParseSymbol(s, body.pos, "}")} |->
                                 IF close.ex # "none" THEN HFail(close, m, h)
                                 ELSE HOk(close.pos, [m EXCEPT !.Materials = body.val], body.heap)])])])])

-----------------------------------------------------------------------------
(* Geoset.                                                                 *)
RECURSIVE CountedArrays(_, _, _, _, _, _)
\* for (index < count) { parseArray(state, arr, index * per); strictParseSymbol(state, ','); }
CountedArrays(s, p, arr, index, count, per) ==
  IF index >= count THEN Ok(p, arr)
  ELSE Let([a \in {parseArray(s, p, arr, index * per)} |->
           IF a.ex # "none" THEN a
           ELSE Let([comma \in {strictParseSymbol(s, a.pos, ",")} |->
                    IF comma.ex # "none" THEN comma
                    ELSE CountedArrays(s, comma.pos, IF a.val.t = "null" THEN arr ELSE a.val,
                                       index + 1, count, per)])])

\* `<count> { (arr ,) x count }' into a new Float32Array(count * per); a
\* count that is no number makes an empty buffer and no turn of the loop
CountedBlock(s, p, per) ==
  Let([count \in {parseNumber(s, p)} |->
      IF count.ex # "none" THEN count
      ELSE IF TypedLength(count.val) < 0 THEN Fail("RangeError", count.pos)
      ELSE Let([n \in {TypedLength(count.val)} |->
           Let([open \in {strictParseSymbol(s, count.pos, "{")} |->
               IF open.ex # "none" THEN open
               ELSE Let([items \in {CountedArrays(s, open.pos, NewTyped("Float32Array", n * per), 0, n, per)} |->
                        IF items.ex # "none" THEN items
                        ELSE Let([close \in {strictParseSymbol(s, items.pos, "}")} |->
                                 IF close.ex # "none" THEN close ELSE Ok(close.pos, items.val)])])])])])

RECURSIVE GroupsBody(_, _, _)
\* the loop of Groups (mdl.ts:551-557); a turn that reads nothing repeats for ever
GroupsBody(s, p, groups) ==
  IF char(s, p) = "}" THEN Ok(p, groups)
  ELSE Let([k \in {parseKeyword(s, p)} |->
           IF k.ex # "none" THEN k
           ELSE Let([a \in {parseArray(s, k.pos, Undefined, 0)} |->
                    IF a.ex # "none" THEN a
                    ELSE Let([q \in {parseSymbol(s, a.pos, ",")} |->
                             IF q = p THEN Fail("exhaust", p)
                             ELSE GroupsBody(s, q, Append(groups, a.val))])])])

\* one entry of a Geoset body (mdl.ts:501-580)
GeosetEntry(s, p, keyword, res) ==
  IF keyword \in {kwVertices, kwNormals, kwTVertices}
  THEN Let([b \in {CountedBlock(s, p, IF keyword = kwTVertices THEN 2 ELSE 3)} |->
           IF b.ex # "none" THEN b
           ELSE IF keyword = kwTVertices
           THEN Ok(b.pos, Put(res, kwTVertices, Arr("Array", Append(Get(res, kwTVertices).v, b.val))))
           ELSE Ok(b.pos, Put(res, keyword, b.val))])
  ELSE IF keyword = kwVertexGroup
  THEN IF Get(res, kwVertices).t # "arr" THEN Fail("TypeError", p)
       ELSE Let([buf \in {NewTyped("Uint8Array", Len(Get(res, kwVertices).v) \div 3)} |->
            Let([a \in {parseArray(s, p, buf, 0)} |->
                IF a.ex # "none" THEN a
                ELSE Ok(a.pos, Put(res, kwVertexGroup, IF a.val.t = "null" THEN buf ELSE a.val))])])
  ELSE IF keyword = kwFaces
  THEN Let([n1 \in {parseNumber(s, p)} |->
           IF n1.ex # "none" THEN n1
           ELSE Let([indexCount \in {parseNumber(s, n1.pos)} |->
                    IF indexCount.ex # "none" THEN indexCount
                    ELSE IF TypedLength(indexCount.val) < 0 THEN Fail("RangeError", indexCount.pos)
                    ELSE Let([buf \in {NewTyped("Uint16Array", TypedLength(indexCount.val))} |->
                         Let([o1 \in {strictParseSymbol(s, indexCount.pos, "{")} |->
                             IF o1.ex # "none" THEN o1
                             ELSE Let([k \in {parseKeyword(s, o1.pos)} |->
                                      IF k.ex # "none" THEN k
                                      ELSE Let([o2 \in {strictParseSymbol(s, k.pos, "{")} |->
                                               IF o2.ex # "none" THEN o2
                                               ELSE Let([a \in {parseArray(s, o2.pos, buf, 0)} |->
                                                        IF a.ex # "none" THEN a
                                                        ELSE Let([c1 \in {strictParseSymbol(s, parseSymbol(s, a.pos, ","), "}")} |->
                                                                 IF c1.ex # "none" THEN c1
                                                                 ELSE Let([c2 \in {strictParseSymbol(s, c1.pos, "}")} |->
                                                                          IF c2.ex # "none" THEN c2
                                                                          ELSE Ok(c2.pos, Put(res, kwFaces,
                                                                                 IF a.val.t = "null" THEN buf ELSE a.val))])])])])])])])])])
  ELSE IF keyword = kwGroups
  THEN Let([n1 \in {parseNumber(s, p)} |->
           IF n1.ex # "none" THEN n1
           ELSE Let([total \in {parseNumber(s, n1.pos)} |->
                    IF total.ex # "none" THEN total
                    ELSE Let([open \in {strictParseSymbol(s, total.pos, "{")} |->
                             IF open.ex # "none" THEN open
                             ELSE Let([body \in {GroupsBody(s, open.pos, << >>)} |->
                                      IF body.ex # "none" THEN body
                                      ELSE Let([close \in {strictParseSymbol(s, body.pos, "}")} |->
                                               IF close.ex # "none" THEN close
                                               ELSE Ok(close.pos,
                                                       Put(Put(res, kwTotalGroupsCount, total.val),
                                                           kwGroups, Arr("Array", body.val)))])])])])])
  ELSE IF keyword \in {kwMinimumExtent, kwMaximumExtent}
  THEN Let([a \in {parseArray(s, p, NewTyped("Float32Array", 3), 0)} |->
           IF a.ex # "none" THEN a
           ELSE Let([comma \in {strictParseSymbol(s, a.pos, ",")} |->
                    IF comma.ex # "none" THEN comma ELSE Ok(comma.pos, Put(res, keyword, a.val))])])
  ELSE IF keyword \in {kwBoundsRadius, kwMaterialID, kwSelectionGroup}
  THEN Let([n \in {parseNumber(s, p)} |->
           IF n.ex # "none" THEN n
           ELSE Let([comma \in {strictParseSymbol(s, n.pos, ",")} |->
                    IF comma.ex # "none" THEN comma ELSE Ok(comma.pos, Put(res, keyword, n.val))])])
  ELSE IF keyword = kwAnim
  THEN Let([r \in {parseObject(s, p)} |->
           IF r.ex # "none" THEN r
           ELSE LET obj == IF Has(r.val.obj, kwAlpha) THEN r.val.obj ELSE Put(r.val.obj, kwAlpha, Num(1))
                IN  Ok(r.pos, Put(res, kwAnims, Arr("Array", Append(Get(res, kwAnims).v, obj))))])
  ELSE IF keyword = kwUnselectable
  THEN Let([comma \in {strictParseSymbol(s, p, ",")} |->
           IF comma.ex # "none" THEN comma ELSE Ok(comma.pos, Put(res, kwUnselectable, Bool(TRUE)))])
  ELSE Ok(p, res)

RECURSIVE GeosetBody(_, _, _)
GeosetBody(s, p, res) ==
  IF char(s, p) = "}" THEN Ok(p, res)
  ELSE Let([k \in {parseKeyword(s, p)} |->
           IF k.ex # "none" THEN k
           ELSE IF ~Truthy(k.val) THEN throwError(k.pos)
           ELSE Let([e \in {GeosetEntry(s, k.pos, k.val.v, res)} |->
                    IF e.ex # "none" THEN e ELSE GeosetBody(s, e.pos, e.val)])])

NewGeoset ==
  Obj([k \in {kwVertices, kwNormals, kwTVertices, kwVertexGroup, kwFaces, kwGroups,
              kwTotalGroupsCount, kwMinimumExtent, kwMaximumExtent, kwBoundsRadius, kwAnims,
              kwMaterialID, kwSelectionGroup, kwUnselectable} |->
         IF k \in {kwTVertices, kwAnims} THEN Arr("Array", << >>)
         ELSE IF k = kwUnselectable THEN Bool(FALSE) ELSE Null])

parseGeoset(s, p, m, h) ==
  Let([open \in {strictParseSymbol(s, p, "{")} |->
      IF open.ex # "none" THEN HFail(open, m, h)
      ELSE Let([body \in {GeosetBody(s, open.pos, NewGeoset)} |->
               IF body.ex # "none" THEN HFail(body, m, h)
               ELSE Let([close \in {strictParseSymbol(s, body.pos, "}")} |->
                        IF close.ex # "none" THEN HFail(close, m, h)
                        ELSE HOk(close.pos,
                                 [m EXCEPT !.Geosets = push(@, Ref(Len(h) + 1))],
                                 Alloc(h, body.val))])])])

-----------------------------------------------------------------------------
(* GeosetAnim.                                                             *)
GeosetAnimFlags(k) == CASE k = kwDropShadow -> 1

\* one entry of a GeosetAnim body (mdl.ts:611-636)
GeosetAnimEntry(s, p, keyword, isStatic, res) ==
  IF IsKw(keyword, kwAlpha)
  THEN IF isStatic
       THEN Let([n \in {parseNumber(s, p)} |->
                IF n.ex # "none" THEN n ELSE Ok(n.pos, Put(res, kwAlpha, n.val))])
       ELSE Let([a \in {parseAnimVector(s, p, "FLOAT1")} |->
                IF a.ex # "none" THEN a ELSE Ok(a.pos, Put(res, kwAlpha, a.val))])
  ELSE IF IsKw(keyword, kwColor)
  THEN IF isStatic
       THEN Let([a \in {parseArray(s, p, NewTyped("Float32Array", 3), 0)} |->
                IF a.ex # "none" THEN a
                ELSE IF a.val.t = "null" THEN Fail("TypeError", a.pos)
                ELSE Ok(a.pos, Put(res, kwColor, reverse(a.val)))])
       ELSE Let([a \in {parseAnimVector(s, p, "FLOAT3")} |->
                IF a.ex # "none" THEN a ELSE Ok(a.pos, Put(res, kwColor, ReverseKeys(a.val)))])
  ELSE IF IsKw(keyword, kwDropShadow)
  THEN Ok(p, Put(res, kwFlags, BitOr(Get(res, kwFlags), Num(GeosetAnimFlags(kwDropShadow)))))
  ELSE Let([n \in {parseNumber(s, p)} |->
           IF n.ex # "none" THEN n ELSE Ok(n.pos, Put(res, KeyOf(keyword), n.val))])

RECURSIVE GeosetAnimBody(_, _, _)
GeosetAnimBody(s, p, res) ==
  IF char(s, p) = "}" THEN Ok(p, res)
  ELSE Let([k \in {parseKeyword(s, p)} |->
           IF k.ex # "none" THEN k
           ELSE IF ~Truthy(k.val) THEN throwError(k.pos)
           ELSE Let([sk \in {StaticPrefix(s, k)} |->
                    IF sk.ex # "none" THEN Fail(sk.ex, sk.pos)
                    ELSE Let([e \in {GeosetAnimEntry(s, sk.pos, sk.val, sk.isStatic, res)} |->
                             IF e.ex # "none" THEN e
                             ELSE GeosetAnimBody(s, parseSymbol(s, e.pos, ","), e.val)])])])

parseGeosetAnim(s, p, m, h) ==
  LET res == Obj([k \in {kwGeosetId, kwAlpha, kwColor, kwFlags} |->
                    CASE k = kwGeosetId -> Num(-1) [] k = kwAlpha -> Num(1)
                      [] k = kwColor -> Null [] k = kwFlags -> Num(0)])
  IN
  Let([open \in {strictParseSymbol(s, p, "{")} |->
      IF open.ex # "none" THEN HFail(open, m, h)
      ELSE Let([body \in {GeosetAnimBody(s, open.pos, res)} |->
               IF body.ex # "none" THEN HFail(body, m, h)
               ELSE Let([close \in {strictParseSymbol(s, body.pos, "}")} |->
                        IF close.ex # "none" THEN HFail(close, m, h)
                        ELSE HOk(close.pos,
                                 [m EXCEPT !.GeosetAnims = push(@, Ref(Len(h) + 1))],
                                 Alloc(h, body.val))])])])

-----------------------------------------------------------------------------
(* Nodes.                                                                  *)
\* enum NodeFlags of ../model
NodeFlags(k) ==
  CASE k = kwDontInheritTranslation -> 1 [] k = kwDontInheritRotation -> 2
    [] k = kwDontInheritScaling -> 4 [] k = kwBillboarded -> 8
    [] k = kwBillboardedLockX -> 16 [] k = kwBillboardedLockY -> 32
    [] k = kwBillboardedLockZ -> 64 [] k = kwCameraAnchored -> 128

\* enum NodeType of ../model: the type tags
NodeType(type) ==
  CASE type = "Helper" -> 256 [] type = "Bone" -> 512 [] type = "Light" -> 1024
    [] type = "EventObject" -> 2048 [] type = "Attachment" -> 4096
    [] type = "ParticleEmitter" -> 8192 [] type = "CollisionShape" -> 16384
    [] type = "RibbonEmitter" -> 32768

NewNode(name, type, extra) ==
  Obj([k \in {kwName, kwObjectId, kwParent, kwPivotPoint, kwFlags} \cup DOMAIN extra |->
         IF k \in DOMAIN extra THEN extra[k]
         ELSE IF k = kwName THEN name
         ELSE IF k = kwFlags THEN Num(NodeType(type))
         ELSE Null])

\* DontInherit { Translation | Rotation | Scaling } (mdl.ts:678-690, 1022-1034)
DontInherit(s, p, res) ==
  Let([open \in {strictParseSymbol(s, p, "{")} |->
      IF open.ex # "none" THEN open
      ELSE Let([val \in {parseKeyword(s, open.pos)} |->
               IF val.ex # "none" THEN val
               ELSE LET flagged == IF IsKw(val.val, kwTranslation)
                          THEN Put(res, kwFlags, BitOr(Get(res, kwFlags), Num(NodeFlags(kwDontInheritTranslation))))
                          ELSE IF IsKw(val.val, kwRotation)
                          THEN Put(res, kwFlags, BitOr(Get(res, kwFlags), Num(NodeFlags(kwDontInheritRotation))))
                          ELSE IF IsKw(val.val, kwScaling)
                          THEN Put(res, kwFlags, BitOr(Get(res, kwFlags), Num(NodeFlags(kwDontInheritScaling))))
                          ELSE res
                    IN
                    Let([close \in {strictParseSymbol(s, val.pos, "}")} |->
                        IF close.ex # "none" THEN close ELSE Ok(close.pos, flagged)])])])

\* one entry of a node body (mdl.ts:666-702)
NodeEntry(s, p, keyword, node) ==
  IF keyword \in {kwTranslation, kwRotation, kwScaling, kwVisibility}
  THEN Let([a \in {parseAnimVector(s, p, IF keyword = kwRotation THEN "FLOAT4"
                                        ELSE IF keyword = kwVisibility THEN "FLOAT1" ELSE "FLOAT3")} |->
           IF a.ex # "none" THEN a ELSE Ok(a.pos, Put(node, keyword, a.val))])
  ELSE IF keyword \in {kwBillboardedLockZ, kwBillboardedLockY, kwBillboardedLockX,
                       kwBillboarded, kwCameraAnchored}
  THEN Ok(p, Put(node, kwFlags, BitOr(Get(node, kwFlags), Num(NodeFlags(keyword)))))
  ELSE IF keyword = kwDontInherit THEN DontInherit(s, p, node)
  ELSE IF keyword = kwPath
  THEN Let([q \in {parseString(s, p)} |->
           IF q.ex # "none" THEN q ELSE Ok(q.pos, Put(node, kwPath, q.val))])
  ELSE Let([w \in {parseKeyword(s, p)} |->
           IF w.ex # "none" THEN w
           ELSE Let([v \in {IF Truthy(w.val) THEN w ELSE parseNumber(s, w.pos)} |->
                    IF v.ex # "none" THEN v
                    ELSE Ok(v.pos, Put(node, keyword,
                              IF (keyword = kwGeosetId /\ IsKw(v.val, kwMultiple)) \/
                                 (keyword = kwGeosetAnimId /\ IsKw(v.val, kwNone))
                              THEN Null ELSE v.val))])])

RECURSIVE NodeBody(_, _, _)
NodeBody(s, p, node) ==
  IF char(s, p) = "}" THEN Ok(p, node)
  ELSE Let([k \in {parseKeyword(s, p)} |->
           IF k.ex # "none" THEN k
           ELSE IF ~Truthy(k.val) THEN throwError(k.pos)
           ELSE Let([e \in {NodeEntry(s, k.pos, k.val.v, node)} |->
                    IF e.ex # "none" THEN e
                    ELSE NodeBody(s, parseSymbol(s, e.pos, ","), e.val)])])

\* parseNode: the node is put on the heap and model.Nodes[node.ObjectId] = node
parseNode(s, p, type, m, h) ==
  Let([name \in {parseString(s, p)} |->
      IF name.ex # "none" THEN HFail(name, m, h)
      ELSE Let([open \in {strictParseSymbol(s, name.pos, "{")} |->
               IF open.ex # "none" THEN HFail(open, m, h)
               ELSE Let([body \in {NodeBody(s, open.pos, NewNode(name.val, type, << >>))} |->
                        IF body.ex # "none" THEN HFail(body, m, h)
                        ELSE Let([close \in {strictParseSymbol(s, body.pos, "}")} |->
                                 IF close.ex # "none" THEN HFail(close, m, h)
                                 ELSE HOk(close.pos,
                                          [m EXCEPT !.Nodes = ListSet(@, Get(body.val, kwObjectId),
                                                                      Ref(Len(h) + 1))],
                                          Alloc(h, body.val))])])])])

\* a parseBone that leaves out model.Bones.push(node)
parseBoneUnlisted(s, p, m, h) == parseNode(s, p, "Bone", m, h)

parseBone(s, p, m, h) ==
  Let([r \in {parseNode(s, p, "Bone", m, h)} |->
      IF r.ex # "none" THEN r ELSE [r EXCEPT !.model.Bones = push(@, Top(r.heap))]])

parseHelper(s, p, m, h) ==
  Let([r \in {parseNode(s, p, "Helper", m, h)} |->
      IF r.ex # "none" THEN r ELSE [r EXCEPT !.model.Helpers = push(@, Top(r.heap))]])

parseAttachment(s, p, m, h) ==
  Let([r \in {parseNode(s, p, "Attachment", m, h)} |->
      IF r.ex # "none" THEN r ELSE [r EXCEPT !.model.Attachments = push(@, Top(r.heap))]])

-----------------------------------------------------------------------------
(* PivotPoints.                                                            *)
RECURSIVE PivotPointsBody(_, _, _, _, _, _)
\* for (i < count) { res.push(parseArray(state, new Float32Array(3), 0)); strictParseSymbol(state, ','); }
PivotPointsBody(s, p, i, count, res, h) ==
  IF i >= count THEN [ex |-> "none", pos |-> p, val |-> res, heap |-> h]
  ELSE Let([a \in {parseArray(s, p, NewTyped("Float32Array", 3), 0)} |->
           IF a.ex # "none" THEN [ex |-> a.ex, pos |-> a.pos, val |-> res, heap |-> h]
           ELSE Let([comma \in {strictParseSymbol(s, a.pos, ",")} |->
                    IF comma.ex # "none"
                    THEN [ex |-> comma.ex, pos |-> comma.pos, val |-> res, heap |-> h]
                    ELSE IF a.val.t = "null"
                    THEN PivotPointsBody(s, comma.pos, i + 1, count, push(res, Null), h)
                    ELSE PivotPointsBody(s, comma.pos, i + 1, count, push(res, Ref(Len(h) + 1)),
                                         Alloc(h, a.val))])])

\* the turns of `for (i = 0; i < count; ++i)': none when count is no number
LoopCount(x) == IF x.t = "num" /\ x.v > 0 THEN x.v ELSE 0

parsePivotPoints(s, p, m, h) ==
  Let([count \in {parseNumber(s, p)} |->
      IF count.ex # "none" THEN HFail(count, m, h)
      ELSE Let([open \in {strictParseSymbol(s, count.pos, "{")} |->
               IF open.ex # "none" THEN HFail(open, m, h)
               ELSE Let([body \in {PivotPointsBody(s, open.pos, 0, LoopCount(count.val), EmptyList, h)} |->
                        IF body.ex # "none" THEN HFail(body, m, h)
                        ELSE Let([close \in {strictParseSymbol(s, body.pos, "}")} |->
                                 IF close.ex # "none" THEN HFail(close, m, h)
                                 ELSE HOk(close.pos, [m EXCEPT !.PivotPoints = body.val], body.heap)])])])])

-----------------------------------------------------------------------------
(* EventObject, CollisionShape.                                            *)
Type34(keyword) == IF keyword = kwRotation THEN "FLOAT4" ELSE "FLOAT3"

\* one entry of an EventObject body (mdl.ts:770-780)
EventObjectEntry(s, p, keyword, res) ==
  IF keyword = kwEventTrack
  THEN Let([count \in {parseNumber(s, p)} |->
           IF count.ex # "none" THEN count
           ELSE IF TypedLength(count.val) < 0 THEN Fail("RangeError", count.pos)
           ELSE Let([a \in {parseArray(s, count.pos, NewTyped("Uint32Array", TypedLength(count.val)), 0)} |->
                    IF a.ex # "none" THEN a ELSE Ok(a.pos, Put(res, kwEventTrack, a.val))])])
  ELSE IF keyword \in {kwTranslation, kwRotation, kwScaling}
  THEN Let([a \in {parseAnimVector(s, p, Type34(keyword))} |->
           IF a.ex # "none" THEN a ELSE Ok(a.pos, Put(res, keyword, a.val))])
  ELSE Let([n \in {parseNumber(s, p)} |->
           IF n.ex # "none" THEN n ELSE Ok(n.pos, Put(res, keyword, n.val))])

RECURSIVE EventObjectBody(_, _, _)
EventObjectBody(s, p, res) ==
  IF char(s, p) = "}" THEN Ok(p, res)
  ELSE Let([k \in {parseKeyword(s, p)} |->
           IF k.ex # "none" THEN k
           ELSE IF ~Truthy(k.val) THEN throwError(k.pos)
           ELSE Let([e \in {EventObjectEntry(s, k.pos, k.val.v, res)} |->
                    IF e.ex # "none" THEN e
                    ELSE EventObjectBody(s, parseSymbol(s, e.pos, ","), e.val)])])

parseEventObject(s, p, m, h) ==
  Let([name \in {parseString(s, p)} |->
      IF name.ex # "none" THEN HFail(name, m, h)
      ELSE Let([open \in {strictParseSymbol(s, name.pos, "{")} |->
               IF open.ex # "none" THEN HFail(open, m, h)
               ELSE Let([body \in {EventObjectBody(s, open.pos,
                                  NewNode(name.val, "EventObject", [k \in {kwEventTrack} |-> Null]))} |->
                        IF body.ex # "none" THEN HFail(body, m, h)
                        ELSE Let([close \in {strictParseSymbol(s, body.pos, "}")} |->
                                 IF close.ex # "none" THEN HFail(close, m, h)
                                 ELSE HOk(close.pos,
                                          [m EXCEPT !.EventObjects = push(@, Ref(Len(h) + 1)),
                                                    !.Nodes = push(@, Ref(Len(h) + 1))],
                                          Alloc(h, body.val))])])])])

CollisionShapeType(k) == CASE k = kwBox -> 0 [] k = kwSphere -> 1

\* one entry of a CollisionShape body (mdl.ts:813-836)
CollisionShapeEntry(s, p, keyword, res) ==
  IF keyword \in {kwSphere, kwBox}
  THEN Ok(p, Put(res, kwShape, Num(CollisionShapeType(keyword))))
  ELSE IF keyword = kwVertices
  THEN Let([b \in {CountedBlock(s, p, 3)} |->
           IF b.ex # "none" THEN b ELSE Ok(b.pos, Put(res, kwVertices, b.val))])
  ELSE IF keyword \in {kwTranslation, kwRotation, kwScaling}
  THEN Let([a \in {parseAnimVector(s, p, Type34(keyword))} |->
           IF a.ex # "none" THEN a ELSE Ok(a.pos, Put(res, keyword, a.val))])
  ELSE Let([n \in {parseNumber(s, p)} |->
           IF n.ex # "none" THEN n ELSE Ok(n.pos, Put(res, keyword, n.val))])

RECURSIVE CollisionShapeBody(_, _, _)
CollisionShapeBody(s, p, res) ==
  IF char(s, p) = "}" THEN Ok(p, res)
  ELSE Let([k \in {parseKeyword(s, p)} |->
           IF k.ex # "none" THEN k
           ELSE IF ~Truthy(k.val) THEN throwError(k.pos)
           ELSE Let([e \in {CollisionShapeEntry(s, k.pos, k.val.v, res)} |->
                    IF e.ex # "none" THEN e
                    ELSE CollisionShapeBody(s, parseSymbol(s, e.pos, ","), e.val)])])

parseCollisionShape(s, p, m, h) ==
  Let([name \in {parseString(s, p)} |->
      IF name.ex # "none" THEN HFail(name, m, h)
      ELSE Let([open \in {strictParseSymbol(s, name.pos, "{")} |->
               IF open.ex # "none" THEN HFail(open, m, h)
               ELSE Let([body \in {CollisionShapeBody(s, open.pos,
                                  NewNode(name.val, "CollisionShape",
                                          [k \in {kwShape, kwVertices} |->
                                             IF k = kwShape THEN Num(CollisionShapeType(kwBox)) ELSE Null]))} |->
                        IF body.ex # "none" THEN HFail(body, m, h)
                        ELSE Let([close \in {strictParseSymbol(s, body.pos, "}")} |->
                                 IF close.ex # "none" THEN HFail(close, m, h)
                                 ELSE HOk(close.pos,
                                          [m EXCEPT !.CollisionShapes = push(@, Ref(Len(h) + 1)),
                                                    !.Nodes = push(@, Ref(Len(h) + 1))],
                                          Alloc(h, body.val))])])])])

-----------------------------------------------------------------------------
(* GlobalSequences and unknown blocks.                                     *)
RECURSIVE GlobalSequencesBody(_, _, _, _, _)
GlobalSequencesBody(s, p, i, count, res) ==
  IF i >= count THEN Ok(p, res)
  ELSE Let([k \in {parseKeyword(s, p)} |->
           IF k.ex # "none" THEN k
           ELSE IF IsKw(k.val, kwDuration)
           THEN Let([n \in {parseNumber(s, k.pos)} |->
                    IF n.ex # "none" THEN n
                    ELSE GlobalSequencesBody(s, parseSymbol(s, n.pos, ","), i + 1, count, push(res, n.val))])
           ELSE GlobalSequencesBody(s, parseSymbol(s, k.pos, ","), i + 1, count, res)])

parseGlobalSequences(s, p, m, h) ==
  Let([count \in {parseNumber(s, p)} |->
      IF count.ex # "none" THEN HFail(count, m, h)
      ELSE Let([open \in {strictParseSymbol(s, count.pos, "{")} |->
               IF open.ex # "none" THEN HFail(open, m, h)
               ELSE Let([body \in {GlobalSequencesBody(s, open.pos, 0, LoopCount(count.val), EmptyList)} |->
                        IF body.ex # "none" THEN HFail(body, m, h)
                        ELSE Let([close \in {strictParseSymbol(s, body.pos, "}")} |->
                                 IF close.ex # "none" THEN HFail(close, m, h)
                                 ELSE HOk(close.pos, [m EXCEPT !.GlobalSequences = body.val], h)])])])])

RECURSIVE SkipToOpen(_, _)
\* while (state.char() !== undefined && state.char() !== '{') ++state.pos
SkipToOpen(s, p) ==
  IF char(s, p) # UNDEF /\ char(s, p) # "{" THEN SkipToOpen(s, p + 1) ELSE p

RECURSIVE SkipBalanced(_, _, _)
\* while (state.char() !== undefined && opened > 0) { ... ++state.pos }
SkipBalanced(s, p, opened) ==
  IF char(s, p) # UNDEF /\ opened > 0
  THEN SkipBalanced(s, p + 1,
                    IF char(s, p) = "{" THEN opened + 1
                    ELSE IF char(s, p) = "}" THEN opened - 1 ELSE opened)
  ELSE p

parseUnknownBlock(s, p, m, h) ==
  HOk(parseSpace(s, SkipBalanced(s, SkipToOpen(s, p) + 1, 1)), m, h)

-----------------------------------------------------------------------------
(* ParticleEmitter (legacy).                                               *)
ParticleEmitterFlags(k) == CASE k = kwEmitterUsesMDL -> 32768 [] k = kwEmitterUsesTGA -> 65536

RECURSIVE ParticleBody(_, _, _)
\* the loop of the nested Particle block (mdl.ts:930-948); it has no check
\* for a missing keyword, so a turn that reads nothing repeats for ever
ParticleBody(s, p, res) ==
  IF char(s, p) = "}" THEN Ok(p, res)
  ELSE Let([k \in {parseKeyword(s, p)} |->
           IF k.ex # "none" THEN k
           ELSE Let([sk \in {StaticPrefix(s, k)} |->
                    IF sk.ex # "none" THEN Fail(sk.ex, sk.pos)
                    ELSE Let([e \in {IF ~sk.isStatic /\ KwIn(sk.val, {kwLifeSpan, kwInitVelocity})
                                  THEN Let([a \in {parseAnimVector(s, sk.pos, "FLOAT1")} |->
                                           IF a.ex # "none" THEN a
                                           ELSE Ok(a.pos, Put(res, sk.val.v, a.val))])
                                  ELSE IF KwIn(sk.val, {kwLifeSpan, kwInitVelocity})
                                  THEN Let([n \in {parseNumber(s, sk.pos)} |->
                                           IF n.ex # "none" THEN n
                                           ELSE Ok(n.pos, Put(res, sk.val.v, n.val))])
                                  ELSE IF IsKw(sk.val, kwPath)
                                  THEN Let([q \in {parseString(s, sk.pos)} |->
                                           IF q.ex # "none" THEN q
                                           ELSE Ok(q.pos, Put(res, kwPath, q.val))])
                                  ELSE Ok(sk.pos, res)} |->
                             IF e.ex # "none" THEN e
                             ELSE Let([q \in {parseSymbol(s, e.pos, ",")} |->
                                      IF q = p THEN Fail("hang", p) ELSE ParticleBody(s, q, e.val)])])])])

\* one entry of a ParticleEmitter body (mdl.ts:912-953)
ParticleEmitterEntry(s, p, keyword, isStatic, res) ==
  IF KwIn(keyword, {kwObjectId, kwParent})
  THEN Let([n \in {parseNumber(s, p)} |->
           IF n.ex # "none" THEN n ELSE Ok(n.pos, Put(res, keyword.v, n.val))])
  ELSE IF KwIn(keyword, {kwEmitterUsesMDL, kwEmitterUsesTGA})
  THEN Ok(p, Put(res, kwFlags, BitOr(Get(res, kwFlags), Num(ParticleEmitterFlags(keyword.v)))))
  ELSE IF ~isStatic /\ KwIn(keyword, {kwVisibility, kwTranslation, kwRotation, kwScaling,
                                      kwEmissionRate, kwGravity, kwLongitude, kwLatitude})
  THEN Let([a \in {parseAnimVector(s, p,
                  IF keyword.v \in {kwVisibility, kwEmissionRate, kwGravity, kwLongitude, kwLatitude}
                  THEN "FLOAT1" ELSE IF keyword.v = kwRotation THEN "FLOAT4" ELSE "FLOAT3")} |->
           IF a.ex # "none" THEN a ELSE Ok(a.pos, Put(res, keyword.v, a.val))])
  ELSE IF IsKw(keyword, kwParticle)
  THEN Let([open \in {strictParseSymbol(s, p, "{")} |->
           IF open.ex # "none" THEN open
           ELSE Let([body \in {ParticleBody(s, open.pos, res)} |->
                    IF body.ex # "none" THEN body
                    ELSE Let([close \in {strictParseSymbol(s, body.pos, "}")} |->
                             IF close.ex # "none" THEN close ELSE Ok(close.pos, body.val)])])])
  ELSE Let([n \in {parseNumber(s, p)} |->
           IF n.ex # "none" THEN n ELSE Ok(n.pos, Put(res, KeyOf(keyword), n.val))])

RECURSIVE ParticleEmitterBody(_, _, _)
ParticleEmitterBody(s, p, res) ==
  IF char(s, p) = "}" THEN Ok(p, res)
  ELSE Let([k \in {parseKeyword(s, p)} |->
           IF k.ex # "none" THEN k
           ELSE IF ~Truthy(k.val) THEN throwError(k.pos)
           ELSE Let([sk \in {StaticPrefix(s, k)} |->
                    IF sk.ex # "none" THEN Fail(sk.ex, sk.pos)
                    ELSE Let([e \in {ParticleEmitterEntry(s, sk.pos, sk.val, sk.isStatic, res)} |->
                             IF e.ex # "none" THEN e
                             ELSE ParticleEmitterBody(s, parseSymbol(s, e.pos, ","), e.val)])])])

parseParticleEmitter(s, p, m, h) ==
  Let([name \in {parseString(s, p)} |->
      IF name.ex # "none" THEN HFail(name, m, h)
      ELSE LET res == Obj([k \in {kwObjectId, kwParent, kwName, kwFlags} |->
                             IF k = kwName THEN name.val ELSE IF k = kwFlags THEN Num(0) ELSE Null])
           IN
           Let([open \in {strictParseSymbol(s, name.pos, "{")} |->
               IF open.ex # "none" THEN HFail(open, m, h)
               ELSE Let([body \in {ParticleEmitterBody(s, open.pos, res)} |->
                        IF body.ex # "none" THEN HFail(body, m, h)
                        ELSE Let([close \in {strictParseSymbol(s, body.pos, "}")} |->
                                 IF close.ex # "none" THEN HFail(close, m, h)
                                 ELSE HOk(close.pos,
                                          [m EXCEPT !.ParticleEmitters = push(@, Ref(Len(h) + 1))],
                                          Alloc(h, body.val))])])])])

-----------------------------------------------------------------------------
(* ParticleEmitter2.                                                       *)
ParticleEmitter2Flags(k) ==
  CASE k = kwUnshaded -> 65536 [] k = kwSortPrimsFarZ -> 131072 [] k = kwLineEmitter -> 262144
    [] k = kwUnfogged -> 524288 [] k = kwModelSpace -> 1048576 [] k = kwXYQuad -> 2097152

ParticleEmitter2FramesFlags(k) == CASE k = kwHead -> 1 [] k = kwTail -> 2

ParticleEmitter2FilterMode(k) ==
  CASE k = kwTransparent -> 0 [] k = kwBlend -> 1 [] k = kwAdditive -> 2
    [] k = kwAlphaKey -> 3 [] k = kwModulate -> 4 [] k = kwModulate2x -> 5

RECURSIVE SegmentColorBody(_, _, _)
\* the loop of SegmentColor (mdl.ts:1039-1052)
SegmentColorBody(s, p, colors) ==
  IF char(s, p) = "}" THEN Ok(p, colors)
  ELSE Let([k \in {parseKeyword(s, p)} |->
           IF k.ex # "none" THEN k
           ELSE Let([colorArr \in {NewTyped("Float32Array", 3)} |->
                Let([a \in {parseArray(s, k.pos, colorArr, 0)} |->
                    IF a.ex # "none" THEN a
                    ELSE Let([q \in {parseSymbol(s, a.pos, ",")} |->
                             IF q = p THEN Fail("exhaust", p)
                             ELSE SegmentColorBody(s, q,
                                    Append(colors, SwapColor(IF a.val.t = "null" THEN colorArr ELSE a.val)))])])])])

\* parseArray(state, buffer, 0) into a buffer made beforehand
IntoBuffer(s, p, res, key, buf) ==
  Let([a \in {parseArray(s, p, buf, 0)} |->
      IF a.ex # "none" THEN a
      ELSE Ok(a.pos, Put(res, key, IF a.val.t = "null" THEN buf ELSE a.val))])

\* one entry of a ParticleEmitter2 body (mdl.ts:990-1071)
ParticleEmitter2Entry(s, p, keyword, isStatic, res) ==
  IF ~isStatic /\ KwIn(keyword, {kwSpeed, kwLatitude, kwVisibility, kwEmissionRate, kwWidth, kwLength,
                                 kwTranslation, kwRotation, kwScaling, kwGravity, kwVariation})
  THEN Let([a \in {parseAnimVector(s, p,
                  IF keyword.v = kwRotation THEN "FLOAT4"
                  ELSE IF keyword.v \in {kwTranslation, kwScaling} THEN "FLOAT3" ELSE "FLOAT1")} |->
           IF a.ex # "none" THEN a ELSE Ok(a.pos, Put(res, keyword.v, a.val))])
  ELSE IF KwIn(keyword, {kwVariation, kwGravity})
  THEN Let([n \in {parseNumber(s, p)} |->
           IF n.ex # "none" THEN n ELSE Ok(n.pos, Put(res, keyword.v, n.val))])
  ELSE IF KwIn(keyword, {kwSortPrimsFarZ, kwUnshaded, kwLineEmitter, kwUnfogged, kwModelSpace, kwXYQuad})
  THEN Ok(p, Put(res, kwFlags, BitOr(Get(res, kwFlags), Num(ParticleEmitter2Flags(keyword.v)))))
  ELSE IF IsKw(keyword, kwBoth)
  THEN Ok(p, Put(res, kwFrameFlags,
                 BitOr(Get(res, kwFrameFlags),
                       BitOr(Num(ParticleEmitter2FramesFlags(kwHead)), Num(ParticleEmitter2FramesFlags(kwTail))))))
  ELSE IF KwIn(keyword, {kwHead, kwTail})
  THEN Ok(p, Put(res, kwFrameFlags,
                 BitOr(Get(res, kwFrameFlags), Num(ParticleEmitter2FramesFlags(keyword.v)))))
  ELSE IF IsKw(keyword, kwSquirt) THEN Ok(p, Put(res, kwSquirt, Bool(TRUE)))
  ELSE IF IsKw(keyword, kwDontInherit) THEN DontInherit(s, p, res)
  ELSE IF IsKw(keyword, kwSegmentColor)
  THEN Let([open \in {strictParseSymbol(s, p, "{")} |->
           IF open.ex # "none" THEN open
           ELSE Let([body \in {SegmentColorBody(s, open.pos, << >>)} |->
                    IF body.ex # "none" THEN body
                    ELSE Let([close \in {strictParseSymbol(s, body.pos, "}")} |->
                             IF close.ex # "none" THEN close
                             ELSE Ok(close.pos, Put(res, kwSegmentColor, Arr("Array", body.val)))])])])
  ELSE IF IsKw(keyword, kwAlpha) THEN IntoBuffer(s, p, res, kwAlpha, NewTyped("Uint8Array", 3))
  ELSE IF IsKw(keyword, kwParticleScaling)
  THEN IntoBuffer(s, p, res, kwParticleScaling, NewTyped("Float32Array", 3))
  ELSE IF KwIn(keyword, {kwLifeSpanUVAnim, kwDecayUVAnim, kwTailUVAnim, kwTailDecayUVAnim})
  THEN IntoBuffer(s, p, res, keyword.v, NewTyped("Uint32Array", 3))
  ELSE IF KwIn(keyword, {kwTransparent, kwBlend, kwAdditive, kwAlphaKey, kwModulate, kwModulate2x})
  THEN Ok(p, Put(res, kwFilterMode, Num(ParticleEmitter2FilterMode(keyword.v))))
  ELSE Let([n \in {parseNumber(s, p)} |->
           IF n.ex # "none" THEN n ELSE Ok(n.pos, Put(res, KeyOf(keyword), n.val))])

RECURSIVE ParticleEmitter2Body(_, _, _)
ParticleEmitter2Body(s, p, res) ==
  IF char(s, p) = "}" THEN Ok(p, res)
  ELSE Let([k \in {parseKeyword(s, p)} |->
           IF k.ex # "none" THEN k
           ELSE IF ~Truthy(k.val) THEN throwError(k.pos)
           ELSE Let([sk \in {StaticPrefix(s, k)} |->
                    IF sk.ex # "none" THEN Fail(sk.ex, sk.pos)
                    ELSE Let([e \in {ParticleEmitter2Entry(s, sk.pos, sk.val, sk.isStatic, res)} |->
                             IF e.ex # "none" THEN e
                             ELSE ParticleEmitter2Body(s, parseSymbol(s, e.pos, ","), e.val)])])])

parseParticleEmitter2(s, p, m, h) ==
  Let([name \in {parseString(s, p)} |->
      IF name.ex # "none" THEN HFail(name, m, h)
      ELSE Let([open \in {strictParseSymbol(s, name.pos, "{")} |->
               IF open.ex # "none" THEN HFail(open, m, h)
               ELSE Let([body \in {ParticleEmitter2Body(s, open.pos,
                                  NewNode(name.val, "ParticleEmitter", [k \in {kwFrameFlags} |-> Num(0)]))} |->
                        IF body.ex # "none" THEN HFail(body, m, h)
                        ELSE Let([close \in {strictParseSymbol(s, body.pos, "}")} |->
                                 IF close.ex # "none" THEN HFail(close, m, h)
                                 ELSE HOk(close.pos,
                                          [m EXCEPT !.ParticleEmitters2 = push(@, Ref(Len(h) + 1)),
                                                    !.Nodes = push(@, Ref(Len(h) + 1))],
                                          Alloc(h, body.val))])])])])

-----------------------------------------------------------------------------
(* Camera.                                                                 *)
RECURSIVE TargetBody(_, _, _)
\* the loop of the nested Target block (mdl.ts:1111-1122); it has no check
\* for a missing keyword, so a turn that reads nothing repeats for ever
TargetBody(s, p, res) ==
  IF char(s, p) = "}" THEN Ok(p, res)
  ELSE Let([k \in {parseKeyword(s, p)} |->
           IF k.ex # "none" THEN k
           ELSE Let([e \in {IF IsKw(k.val, kwPosition)
                         THEN IntoBuffer(s, k.pos, res, kwTargetPosition, NewTyped("Float32Array", 3))
                         ELSE IF IsKw(k.val, kwTranslation)
                         THEN Let([a \in {parseAnimVector(s, k.pos, "FLOAT3")} |->
                                  IF a.ex # "none" THEN a
                                  ELSE Ok(a.pos, Put(res, kwTargetTranslation, a.val))])
                         ELSE Ok(k.pos, res)} |->
                    IF e.ex # "none" THEN e
                    ELSE Let([q \in {parseSymbol(s, e.pos, ",")} |->
                             IF q = p THEN Fail("hang", p) ELSE TargetBody(s, q, e.val)])])])

\* one entry of a Camera body (mdl.ts:1103-1130)
CameraEntry(s, p, keyword, res) ==
  IF keyword = kwPosition THEN IntoBuffer(s, p, res, kwPosition, NewTyped("Float32Array", 3))
  ELSE IF keyword \in {kwFieldOfView, kwNearClip, kwFarClip}
  THEN Let([n \in {parseNumber(s, p)} |->
           IF n.ex # "none" THEN n ELSE Ok(n.pos, Put(res, keyword, n.val))])
  ELSE IF keyword = kwTarget
  THEN Let([open \in {strictParseSymbol(s, p, "{")} |->
           IF open.ex # "none" THEN open
           ELSE Let([body \in {TargetBody(s, open.pos, res)} |->
                    IF body.ex # "none" THEN body
                    ELSE Let([close \in {strictParseSymbol(s, body.pos, "}")} |->
                             IF close.ex # "none" THEN close ELSE Ok(close.pos, body.val)])])])
  ELSE IF keyword \in {kwTranslation, kwRotation}
  THEN Let([a \in {parseAnimVector(s, p, IF keyword = kwRotation THEN "FLOAT1" ELSE "FLOAT3")} |->
           IF a.ex # "none" THEN a ELSE Ok(a.pos, Put(res, keyword, a.val))])
  ELSE Ok(p, res)

RECURSIVE CameraBody(_, _, _)
CameraBody(s, p, res) ==
  IF char(s, p) = "}" THEN Ok(p, res)
  ELSE Let([k \in {parseKeyword(s, p)} |->
           IF k.ex # "none" THEN k
           ELSE IF ~Truthy(k.val) THEN throwError(k.pos)
           ELSE Let([e \in {CameraEntry(s, k.pos, k.val.v, res)} |->
                    IF e.ex # "none" THEN e
                    ELSE CameraBody(s, parseSymbol(s, e.pos, ","), e.val)])])

parseCamera(s, p, m, h) ==
  Let([name \in {parseString(s, p)} |->
      IF name.ex # "none" THEN HFail(name, m, h)
      ELSE LET res == Obj([k \in {kwName, kwPosition, kwFieldOfView, kwNearClip, kwFarClip,
                                  kwTargetPosition} |->
                             IF k = kwName THEN name.val
                             ELSE IF k \in {kwPosition, kwTargetPosition} THEN Null ELSE Num(0)])
           IN
           Let([open \in {strictParseSymbol(s, name.pos, "{")} |->
               IF open.ex # "none" THEN HFail(open, m, h)
               ELSE Let([body \in {CameraBody(s, open.pos, res)} |->
                        IF body.ex # "none" THEN HFail(body, m, h)
                        ELSE Let([close \in {strictParseSymbol(s, body.pos, "}")} |->
                                 IF close.ex # "none" THEN HFail(close, m, h)
                                 ELSE HOk(close.pos,
                                          [m EXCEPT !.Cameras = push(@, Ref(Len(h) + 1))],
                                          Alloc(h, body.val))])])])])

-----------------------------------------------------------------------------
(* Light.                                                                  *)
LightType(k) == CASE k = kwOmnidirectional -> 0 [] k = kwDirectional -> 1 [] k = kwAmbient -> 2

\* one entry of a Light body (mdl.ts:1167-1208)
LightEntry(s, p, keyword, isStatic, res) ==
  IF ~isStatic /\ KwIn(keyword, {kwVisibility, kwColor, kwIntensity, kwAmbIntensity, kwAmbColor,
                                 kwTranslation, kwRotation, kwScaling, kwAttenuationStart,
                                 kwAttenuationEnd})
  THEN Let([a \in {parseAnimVector(s, p,
                  IF keyword.v = kwRotation THEN "FLOAT4"
                  ELSE IF keyword.v \in {kwVisibility, kwIntensity, kwAmbIntensity,
                                         kwAttenuationStart, kwAttenuationEnd}
                  THEN "FLOAT1" ELSE "FLOAT3")} |->
           IF a.ex # "none" THEN a
           ELSE IF keyword.v \in {kwColor, kwAmbColor}
           THEN Ok(a.pos, Put(res, keyword.v, ReverseKeys(a.val)))
           ELSE Ok(a.pos, Put(res, keyword.v, a.val))])
  ELSE IF KwIn(keyword, {kwOmnidirectional, kwDirectional, kwAmbient})
  THEN Ok(p, Put(res, kwLightType, Num(LightType(keyword.v))))
  ELSE IF KwIn(keyword, {kwColor, kwAmbColor})
  THEN Let([color \in {NewTyped("Float32Array", 3)} |->
       Let([a \in {parseArray(s, p, color, 0)} |->
           IF a.ex # "none" THEN a
           ELSE Ok(a.pos, Put(res, keyword.v, SwapColor(IF a.val.t = "null" THEN color ELSE a.val)))])])
  ELSE Let([n \in {parseNumber(s, p)} |->
           IF n.ex # "none" THEN n ELSE Ok(n.pos, Put(res, KeyOf(keyword), n.val))])

RECURSIVE LightBody(_, _, _)
LightBody(s, p, res) ==
  IF char(s, p) = "}" THEN Ok(p, res)
  ELSE Let([k \in {parseKeyword(s, p)} |->
           IF k.ex # "none" THEN k
           ELSE IF ~Truthy(k.val) THEN throwError(k.pos)
           ELSE Let([sk \in {StaticPrefix(s, k)} |->
                    IF sk.ex # "none" THEN Fail(sk.ex, sk.pos)
                    ELSE Let([e \in {LightEntry(s, sk.pos, sk.val, sk.isStatic, res)} |->
                             IF e.ex # "none" THEN e
                             ELSE LightBody(s, parseSymbol(s, e.pos, ","), e.val)])])])

parseLight(s, p, m, h) ==
  Let([name \in {parseString(s, p)} |->
      IF name.ex # "none" THEN HFail(name, m, h)
      ELSE Let([open \in {strictParseSymbol(s, name.pos, "{")} |->
               IF open.ex # "none" THEN HFail(open, m, h)
               ELSE Let([body \in {LightBody(s, open.pos,
                                  NewNode(name.val, "Light", [k \in {kwLightType} |-> Num(0)]))} |->
                        IF body.ex # "none" THEN HFail(body, m, h)
                        ELSE Let([close \in {strictParseSymbol(s, body.pos, "}")} |->
                                 IF close.ex # "none" THEN HFail(close, m, h)
                                 ELSE HOk(close.pos,
                                          [m EXCEPT !.Lights = push(@, Ref(Len(h) + 1)),
                                                    !.Nodes = push(@, Ref(Len(h) + 1))],
                                          Alloc(h, body.val))])])])])

-----------------------------------------------------------------------------
(* TextureAnims.                                                           *)
RECURSIVE TVertexAnimBody(_, _, _)
\* the inner loop of parseTextureAnims (mdl.ts:1233-1248)
TVertexAnimBody(s, p, obj) ==
  IF char(s, p) = "}" THEN Ok(p, obj)
  ELSE Let([k \in {parseKeyword(s, p)} |->
           IF k.ex # "none" THEN k
           ELSE IF ~Truthy(k.val) THEN throwError(k.pos)
           ELSE IF KwIn(k.val, {kwTranslation, kwRotation, kwScaling})
           THEN Let([a \in {parseAnimVector(s, k.pos, Type34(k.val.v))} |->
                    IF a.ex # "none" THEN a
                    ELSE TVertexAnimBody(s, parseSymbol(s, a.pos, ","), Put(obj, k.val.v, a.val))])
           ELSE Fail("Error", k.pos)])

RECURSIVE TextureAnimsBody(_, _, _, _)
TextureAnimsBody(s, p, res, h) ==
  IF char(s, p) = "}" THEN [ex |-> "none", pos |-> p, val |-> res, heap |-> h]
  ELSE Let([k \in {parseKeyword(s, p)} |->
           IF k.ex # "none" THEN [ex |-> k.ex, pos |-> k.pos, val |-> res, heap |-> h]
           ELSE Let([open \in {strictParseSymbol(s, k.pos, "{")} |->
                    IF open.ex # "none" THEN [ex |-> open.ex, pos |-> open.pos, val |-> res, heap |-> h]
                    ELSE Let([body \in {TVertexAnimBody(s, open.pos, EmptyObj)} |->
                             IF body.ex # "none"
                             THEN [ex |-> body.ex, pos |-> body.pos, val |-> res, heap |-> h]
                             ELSE Let([close \in {strictParseSymbol(s, body.pos, "}")} |->
                                      IF close.ex # "none"
                                      THEN [ex |-> close.ex, pos |-> close.pos, val |-> res, heap |-> h]
                                      ELSE TextureAnimsBody(s, close.pos, push(res, Ref(Len(h) + 1)),
                                                            Alloc(h, body.val))])])])])

parseTextureAnims(s, p, m, h) ==
  Let([count \in {parseNumber(s, p)} |->
      IF count.ex # "none" THEN HFail(count, m, h)
      ELSE Let([open \in {strictParseSymbol(s, count.pos, "{")} |->
               IF open.ex # "none" THEN HFail(open, m, h)
               ELSE Let([body \in {TextureAnimsBody(s, open.pos, EmptyList, h)} |->
                        IF body.ex # "none" THEN HFail(body, m, h)
                        ELSE Let([close \in {strictParseSymbol(s, body.pos, "}")} |->
                                 IF close.ex # "none" THEN HFail(close, m, h)
                                 ELSE HOk(close.pos, [m EXCEPT !.TextureAnims = body.val], body.heap)])])])])

-----------------------------------------------------------------------------
(* RibbonEmitter.                                                          *)
\* one entry of a RibbonEmitter body (mdl.ts:1298-1329)
RibbonEmitterEntry(s, p, keyword, isStatic, res) ==
  IF ~isStatic /\ KwIn(keyword, {kwVisibility, kwHeightAbove, kwHeightBelow, kwTranslation,
                                 kwRotation, kwScaling, kwAlpha, kwTextureSlot})
  THEN Let([a \in {parseAnimVector(s, p,
                  IF keyword.v = kwRotation THEN "FLOAT4"
                  ELSE IF keyword.v \in {kwVisibility, kwHeightAbove, kwHeightBelow, kwAlpha} THEN "FLOAT1"
                  ELSE IF keyword.v = kwTextureSlot THEN "INT1" ELSE "FLOAT3")} |->
           IF a.ex # "none" THEN a ELSE Ok(a.pos, Put(res, keyword.v, a.val))])
  ELSE IF IsKw(keyword, kwColor)
  THEN Let([color \in {NewTyped("Float32Array", 3)} |->
       Let([a \in {parseArray(s, p, color, 0)} |->
           IF a.ex # "none" THEN a
           ELSE Ok(a.pos, Put(res, kwColor, SwapColor(IF a.val.t = "null" THEN color ELSE a.val)))])])
  ELSE Let([n \in {parseNumber(s, p)} |->
           IF n.ex # "none" THEN n ELSE Ok(n.pos, Put(res, KeyOf(keyword), n.val))])

RECURSIVE RibbonEmitterBody(_, _, _)
RibbonEmitterBody(s, p, res) ==
  IF char(s, p) = "}" THEN Ok(p, res)
  ELSE Let([k \in {parseKeyword(s, p)} |->
           IF k.ex # "none" THEN k
           ELSE IF ~Truthy(k.val) THEN throwError(k.pos)
           ELSE Let([sk \in {StaticPrefix(s, k)} |->
                    IF sk.ex # "none" THEN Fail(sk.ex, sk.pos)
                    ELSE Let([e \in {RibbonEmitterEntry(s, sk.pos, sk.val, sk.isStatic, res)} |->
                             IF e.ex # "none" THEN e
                             ELSE RibbonEmitterBody(s, parseSymbol(s, e.pos, ","), e.val)])])])

parseRibbonEmitter(s, p, m, h) ==
  Let([name \in {parseString(s, p)} |->
      IF name.ex # "none" THEN HFail(name, m, h)
      ELSE Let([open \in {strictParseSymbol(s, name.pos, "{")} |->
               IF open.ex # "none" THEN HFail(open, m, h)
               ELSE Let([body \in {RibbonEmitterBody(s, open.pos,
                                  NewNode(name.val, "RibbonEmitter",
                                          [k \in {kwHeightAbove, kwHeightBelow, kwAlpha, kwColor,
                                                  kwLifeSpan, kwTextureSlot, kwEmissionRate, kwRows,
                                                  kwColumns, kwMaterialID, kwGravity, kwVisibility}
                                             |-> Null]))} |->
                        IF body.ex # "none" THEN HFail(body, m, h)
                        ELSE Let([close \in {strictParseSymbol(s, body.pos, "}")} |->
                                 IF close.ex # "none" THEN HFail(close, m, h)
                                 ELSE HOk(close.pos,
                                          [m EXCEPT !.RibbonEmitters = push(@, Ref(Len(h) + 1)),
                                                    !.Nodes = push(@, Ref(Len(h) + 1))],
                                          Alloc(h, body.val))])])])])

-----------------------------------------------------------------------------
(* Driver (mdl.ts:1363-1418).                                              *)
\* const parsers = { ... } (mdl.ts:1340-1361)
parsers ==
  {kwVersion, kwModel, kwSequences, kwTextures, kwMaterials, kwGeoset, kwGeosetAnim, kwBone,
   kwHelper, kwAttachment, kwPivotPoints, kwEventObject, kwCollisionShape, kwGlobalSequences,
   kwParticleEmitter, kwParticleEmitter2, kwCamera, kwLight, kwTextureAnims, kwRibbonEmitter}

\* `keyword in parsers' (mdl.ts:1401) looks the keyword up in parsers and in
\* what parsers inherits: these are the names of Object.prototype that
\* parseKeyword can read (letters and digits only)
ObjectPrototype ==
  {kwconstructor, kwhasOwnProperty, kwisPrototypeOf, kwpropertyIsEnumerable, kwtoLocaleString,
   kwtoString, kwvalueOf}

\* parsers[keyword](state, model) for an inherited name (mdl.ts:1402): a
\* method of Object.prototype, which reads its arguments, changes neither
\* state nor model, and returns a value the driver drops
inherited(s, p, m, h) == HOk(p, m, h)

\* the scene parse starts from (mdl.ts:1365-1394)
NewModel ==
  [Info |-> Obj([k \in {kwName, kwMinimumExtent, kwMaximumExtent, kwBoundsRadius, kwBlendTime} |->
                   CASE k = kwName -> Str(<< >>) [] k = kwBoundsRadius -> Num(0)
                     [] k = kwBlendTime -> Num(150) [] OTHER -> Null]),
   Sequences |-> EmptyList, Textures |-> EmptyList, Materials |-> EmptyList,
   Geosets |-> EmptyList, GeosetAnims |-> EmptyList, Bones |-> EmptyList,
   Helpers |-> EmptyList, Attachments |-> EmptyList, Nodes |-> EmptyList,
   PivotPoints |-> EmptyList, EventObjects |-> EmptyList, CollisionShapes |-> EmptyList,
   ParticleEmitters |-> EmptyList, ParticleEmitters2 |-> EmptyList, Cameras |-> EmptyList,
   Lights |-> EmptyList, RibbonEmitters |-> EmptyList, TextureAnims |-> EmptyList,
   GlobalSequences |-> EmptyList,
   Version |-> Num(800)]

RECURSIVE SkipComments(_, _)
\* while (parseComment(state));
SkipComments(s, p) ==
  Let([c \in {parseComment(s, p)} |->
                                 IF c = -1 THEN p ELSE SkipComments(s, c)])

\* const keyword = parseKeyword(state) of one turn of the driver's loop
TopKeyword(s, p) == parseKeyword(s, SkipComments(s, p))

RECURSIVE PivotPass(_, _, _)
\* the finalization pass (mdl.ts:1411-1415) from index i on: the heap it
\* leaves, or the TypeError of a write through a hole of Nodes
PivotPass(m, h, i) ==
  IF i >= m.Nodes.length THEN [ex |-> "none", heap |-> h]
  ELSE IF Truthy(ListGet(m.PivotPoints, i))
  THEN IF ListGet(m.Nodes, i).t # "ref" THEN [ex |-> "TypeError", heap |-> h]
       ELSE PivotPass(m, [h EXCEPT ![ListGet(m.Nodes, i).a] =
                                     Put(@, kwPivotPoint, ListGet(m.PivotPoints, i))], i + 1)
  ELSE PivotPass(m, h, i + 1)

\* parsers[keyword](state, model), or parseUnknownBlock(state)
Handler(k, s, p, m, h) ==
  CASE k = kwVersion -> parseVersion(s, p, m, h)
    [] k = kwModel -> parseModelInfo(s, p, m, h)
    [] k = kwSequences -> parseSequences(s, p, m, h)
    [] k = kwTextures -> parseTextures(s, p, m, h)
    [] k = kwMaterials -> parseMaterials(s, p, m, h)
    [] k = kwGeoset -> parseGeoset(s, p, m, h)
    [] k = kwGeosetAnim -> parseGeosetAnim(s, p, m, h)
    [] k = kwBone -> parseBone(s, p, m, h)
    [] k = kwHelper -> parseHelper(s, p, m, h)
    [] k = kwAttachment -> parseAttachment(s, p, m, h)
    [] k = kwPivotPoints -> parsePivotPoints(s, p, m, h)
    [] k = kwEventObject -> parseEventObject(s, p, m, h)
    [] k = kwCollisionShape -> parseCollisionShape(s, p, m, h)
    [] k = kwGlobalSequences -> parseGlobalSequences(s, p, m, h)
    [] k = kwParticleEmitter -> parseParticleEmitter(s, p, m, h)
    [] k = kwParticleEmitter2 -> parseParticleEmitter2(s, p, m, h)
    [] k = kwCamera -> parseCamera(s, p, m, h)
    [] k = kwLight -> parseLight(s, p, m, h)
    [] k = kwTextureAnims -> parseTextureAnims(s, p, m, h)
    [] k = kwRibbonEmitter -> parseRibbonEmitter(s, p, m, h)
    [] k \in ObjectPrototype -> inherited(s, p, m, h)
    [] OTHER -> parseUnknownBlock(s, p, m, h)

\* the finalization pass and `return model'
Return(p, m, h) ==
  Let([f \in {PivotPass(m, h, 0)} |->
                                 [ex |-> f.ex, pos |-> p, model |-> m, heap |-> f.heap]])

RECURSIVE Drive(_, _, _, _)
\* the driver's loop from the cursor p on, then the finalization pass
Drive(s, p, m, h) ==
  IF p < Len(s)
  THEN Let([k \in {TopKeyword(s, p)} |->
           IF k.ex # "none" THEN HFail(k, m, h)
           ELSE IF k.val.t = "null" THEN Return(k.pos, m, h)
           ELSE Let([r \in {Handler(k.val.v, s, k.pos, m, h)} |->
                    IF r.ex # "none" THEN r ELSE Drive(s, r.pos, r.model, r.heap)])])
  ELSE Return(p, m, h)

\* export function parse (str: string): Model, as one function of the input
parse(s) == Drive(s, 0, NewModel, << >>)

-----------------------------------------------------------------------------
(* Source texts.                                                           *)
SP == <<" ">>
NL == <<"\n">>
LB == <<"{", " ">>
RB == <<"}", " ">>
CM == <<",", " ">>
QT == <<"\"">>

RECURSIVE Cat(_)
\* the concatenation of a sequence of texts
Cat(parts) == IF Len(parts) = 0 THEN << >> ELSE Head(parts) \o Cat(Tail(parts))

DigitChar(d) ==
  CASE d = 0 -> "0" [] d = 1 -> "1" [] d = 2 -> "2" [] d = 3 -> "3" [] d = 4 -> "4"
    [] d = 5 -> "5" [] d = 6 -> "6" [] d = 7 -> "7" [] d = 8 -> "8" [] d = 9 -> "9"

RECURSIVE NatText(_)
NatText(n) == IF n < 10 THEN <<DigitChar(n)>> ELSE Append(NatText(n \div 10), DigitChar(n % 10))

\* a number as the source writes it, followed by a space
Dec(n) == (IF n < 0 THEN <<"-">> \o NatText(-n) ELSE NatText(n)) \o SP

\* a quoted name, followed by a space
Quoted(name) == QT \o name \o QT \o SP

\* a keyword, followed by a space
W(k) == k \o SP

\* `{ a, b, c }' with the trailing comma the grammar tolerates left out
RECURSIVE NumberList(_)
NumberList(ns) ==
  IF Len(ns) = 0 THEN << >>
  ELSE IF Len(ns) = 1 THEN Dec(ns[1])
  ELSE Dec(ns[1]) \o CM \o NumberList(Tail(ns))
Braced(ns) == LB \o NumberList(ns) \o RB

-----------------------------------------------------------------------------
(* Inputs.  `src' records how the input text was put together, so that a   *)
(* property can relate the scene to the source; parse never reads it.      *)
MaxBlocks == 2
MaxObjectId == 1
MaxPivots == 2

\* the sequences of at most n members of S
Scripts(S, n) == UNION {[1..k -> S] : k \in 0..n}

\* the name of the block at place i of a script
NameAt(i) == <<(<<"a", "b", "c", "d", "e", "f">>)[i]>>

\* `Kind "name" { body }'
NamedBlock(kind, name, body) == W(kind) \o Quoted(name) \o LB \o body \o RB

\* `Key n,'
Field(key, n) == W(key) \o Dec(n) \o CM

RECURSIVE PointsText(_, _)
\* the points 1..n of a PivotPoints block: point j is { 10j+1, 10j+2, 10j+3 }
PointsText(j, n) ==
  IF j > n THEN << >>
  ELSE Braced(<<10 * j + 1, 10 * j + 2, 10 * j + 3>>) \o CM \o PointsText(j + 1, n)

PivotPointsText(n) == W(kwPivotPoints) \o Dec(n) \o LB \o PointsText(1, n) \o RB

(* Family "order": a script of Bone and Helper blocks, each with the       *)
(* ObjectId it declares (-1: none), and PivotPoints blocks with the number *)
(* of points they list.                                                    *)
OrderPool ==
  [kind : {kwBone, kwHelper}, id : -1..MaxObjectId] \cup [kind : {kwPivotPoints}, id : 1..MaxPivots]

OrderBlockText(b, i) ==
  IF b.kind = kwPivotPoints THEN PivotPointsText(b.id)
  ELSE NamedBlock(b.kind, NameAt(i), IF b.id = -1 THEN << >> ELSE Field(kwObjectId, b.id))

OrderText(bs) == Cat([i \in 1..Len(bs) |-> OrderBlockText(bs[i], i)])

OrderInputs == {[fam |-> "order", blocks |-> bs, text |-> OrderText(bs)] : bs \in Scripts(OrderPool, MaxBlocks)}

(* Family "prefix": every prefix of a well-formed text, so that the input  *)
(* ends inside a string, inside a block body, after a number and inside a  *)
(* trailing comment.                                                       *)
PrefixBase ==
  Cat(<<W(kwModel), Quoted(<<"m">>), LB, Field(kwBlendTime, 150),
        W(kwMinimumExtent), Braced(<<1, 2, 3>>), CM, RB, NL,
        <<"/", "/", " ", "e", "n", "d", "\n">>>>)

PrefixInputs == {[fam |-> "prefix", text |-> SubSeq(PrefixBase, 1, n)] : n \in 0..Len(PrefixBase)}

(* Family "track": one block that holds one animated track.  `arity' is    *)
(* the arity the channel declares, `shape' says how many numbers every     *)
(* vector of the source lists: one bare number, one fewer than the arity,  *)
(* the arity, or one more.                                                 *)
MaxKeys == 2

Shapes == {"scalar", "short", "exact", "long"}
LineTypes == {kwDontInterp, kwLinear, kwHermite, kwBezier}

\* the numbers base+1 .. base+n
Run(base, n) == [i \in 1..n |-> base + i]

VectorText(base, arity, shape) ==
  CASE shape = "scalar" -> Dec(base + 1)
    [] shape = "short" -> Braced(Run(base, arity - 1))
    [] shape = "exact" -> Braced(Run(base, arity))
    [] OTHER -> Braced(Run(base, arity + 1))

\* `frame: vector, InTan vector, OutTan vector,' with the tangents only
\* where the interpolation has them
KeyText(j, arity, shape, lt) ==
  Dec(10 * j) \o <<":", " ">> \o VectorText(10 * j, arity, shape) \o CM \o
  (IF lt \in {kwHermite, kwBezier}
   THEN W(kwInTan) \o VectorText(10 * j + 100, arity, shape) \o CM \o
        W(kwOutTan) \o VectorText(10 * j + 200, arity, shape) \o CM
   ELSE << >>)

TrackText(key, arity, shape, lt, n) ==
  W(key) \o Dec(n) \o LB \o W(lt) \o CM \o
  Cat([j \in 1..n |-> KeyText(j, arity, shape, lt)]) \o RB

\* where a track can stand: the handler, the way the block is written, the
\* key and the arity of the channel
Holder(wrap, kind, key, arity) == [wrap |-> wrap, kind |-> kind, key |-> key, arity |-> arity]

Holders ==
  {Holder("node", kwBone, kwTranslation, 3), Holder("node", kwBone, kwRotation, 4),
   Holder("node", kwHelper, kwScaling, 3), Holder("node", kwAttachment, kwVisibility, 1),
   Holder("node", kwEventObject, kwTranslation, 3), Holder("node", kwCollisionShape, kwRotation, 4),
   Holder("node", kwLight, kwIntensity, 1), Holder("node", kwLight, kwColor, 3),
   Holder("node", kwLight, kwRotation, 4), Holder("node", kwParticleEmitter2, kwSpeed, 1),
   Holder("node", kwParticleEmitter2, kwTranslation, 3),
   Holder("node", kwRibbonEmitter, kwHeightAbove, 1), Holder("node", kwRibbonEmitter, kwTextureSlot, 1),
   Holder("node", kwParticleEmitter, kwEmissionRate, 1), Holder("node", kwParticleEmitter, kwRotation, 4),
   Holder("node", kwCamera, kwRotation, 1), Holder("node", kwCamera, kwTranslation, 3),
   Holder("plain", kwGeosetAnim, kwAlpha, 1), Holder("plain", kwGeosetAnim, kwColor, 3),
   Holder("layer", kwMaterials, kwAlpha, 1), Holder("layer", kwMaterials, kwTextureID, 1),
   Holder("tvanim", kwTextureAnims, kwTranslation, 3), Holder("tvanim", kwTextureAnims, kwRotation, 4),
   Holder("target", kwCamera, kwTranslation, 3), Holder("particle", kwParticleEmitter, kwLifeSpan, 1)}

\* the block of holder h around the text t of its track
HolderText(h, t) ==
  CASE h.wrap = "node" -> NamedBlock(h.kind, <<"n">>, t)
    [] h.wrap = "plain" -> W(h.kind) \o LB \o t \o RB
    [] h.wrap = "layer" ->
         W(kwMaterials) \o Dec(1) \o LB \o W(kwMaterial) \o LB \o W(kwLayer) \o LB \o t \o RB \o RB \o RB
    [] h.wrap = "tvanim" -> W(kwTextureAnims) \o Dec(1) \o LB \o W(kwTVertexAnim) \o LB \o t \o RB \o RB
    [] h.wrap = "target" -> NamedBlock(h.kind, <<"n">>, W(kwTarget) \o LB \o t \o RB)
    [] OTHER -> NamedBlock(h.kind, <<"n">>, W(kwParticle) \o LB \o t \o RB)

TrackInputs ==
  {[fam |-> "track", holder |-> h, shape |-> sh, lineType |-> lt, keys |-> n,
    text |-> HolderText(h, TrackText(h.key, h.arity, sh, lt, n))] :
     h \in Holders, sh \in Shapes, lt \in LineTypes, n \in 0..MaxKeys}

(* Family "colour": one block that holds one colour, written {b, g, r} in  *)
(* the source.  A static colour is the triple `bgr'; SegmentColor lists    *)
(* three triples and a track MaxKeys keys, the j-th of them bgr + 10j in   *)
(* every channel, with tangents bgr + 10j + 100 and bgr + 10j + 200.       *)
MaxChannel == 1

ColourTriples == {<<b, g, r>> : b \in 0..MaxChannel, g \in 0..MaxChannel, r \in 0..MaxChannel}

Shifted(c, d) == <<c[1] + d, c[2] + d, c[3] + d>>

StaticColourText(key, c) == W(kwStatic) \o W(key) \o Braced(c) \o CM

SegmentColorText(c) ==
  W(kwSegmentColor) \o LB \o
  Cat([j \in 1..3 |-> W(kwColor) \o Braced(Shifted(c, 10 * j)) \o CM]) \o RB \o CM

ColourKeyText(j, c, lt) ==
  Dec(10 * j) \o <<":", " ">> \o Braced(Shifted(c, 10 * j)) \o CM \o
  (IF lt \in {kwHermite, kwBezier}
   THEN W(kwInTan) \o Braced(Shifted(c, 10 * j + 100)) \o CM \o
        W(kwOutTan) \o Braced(Shifted(c, 10 * j + 200)) \o CM
   ELSE << >>)

ColourTrackText(key, c, lt, n) ==
  W(key) \o Dec(n) \o LB \o W(lt) \o CM \o Cat([j \in 1..n |-> ColourKeyText(j, c, lt)]) \o RB

StaticColourHolders ==
  {Holder("plain", kwGeosetAnim, kwColor, 3), Holder("node", kwLight, kwColor, 3),
   Holder("node", kwLight, kwAmbColor, 3), Holder("node", kwRibbonEmitter, kwColor, 3)}

AnimatedColourHolders ==
  {Holder("plain", kwGeosetAnim, kwColor, 3), Holder("node", kwLight, kwColor, 3),
   Holder("node", kwLight, kwAmbColor, 3)}

ColourInputs ==
  {[fam |-> "colour", mode |-> "static", holder |-> h, bgr |-> c,
    text |-> HolderText(h, StaticColourText(h.key, c))] : h \in StaticColourHolders, c \in ColourTriples}
  \cup
  {[fam |-> "colour", mode |-> "segment", holder |-> Holder("node", kwParticleEmitter2, kwSegmentColor, 3),
    bgr |-> c, text |-> NamedBlock(kwParticleEmitter2, <<"n">>, SegmentColorText(c))] : c \in ColourTriples}
  \cup
  {[fam |-> "colour", mode |-> "track", holder |-> h, bgr |-> c, lineType |-> lt, keys |-> n,
    text |-> HolderText(h, ColourTrackText(h.key, c, lt, n))] :
     h \in AnimatedColourHolders, c \in ColourTriples, lt \in LineTypes, n \in 1..MaxKeys}

(* Family "unknown": a block with an unregistered keyword and a region of  *)
(* matched braces, nested `depth' deep with one or two members, between    *)
(* two texts of registered blocks.                                         *)
MaxDepth == 2
Widths == {1, 2}

RECURSIVE Nest(_)
Nest(d) ==
  IF d = 0 THEN LB \o W(kwPath) \o Quoted(<<"x">>) \o CM \o RB
  ELSE LB \o W(kwAnim) \o Nest(d - 1) \o CM \o RB

Region(d, w) ==
  IF d = 0 THEN Nest(0)
  ELSE LB \o Cat([i \in 1..w |-> W(kwAnim) \o Nest(d - 1) \o CM]) \o RB

UnknownHeads ==
  {W(kwFaceFX), W(kwFoo), W(kwFoo) \o Quoted(<<"x">>), W(kwFoo) \o Dec(3), W(kwconstructor),
   W(kwtoString)}

VersionText(n) == W(kwVersion) \o LB \o Field(kwFormatVersion, n) \o RB

Befores == {<< >>, NamedBlock(kwBone, <<"a">>, Field(kwObjectId, 0))}

Afters ==
  {<< >>, VersionText(800), VersionText(1000),
   NamedBlock(kwHelper, <<"b">>, Field(kwObjectId, 1)) \o PivotPointsText(1)}

UnknownInputs ==
  {[fam |-> "unknown", before |-> b, block |-> u \o Region(d, w), after |-> a,
    text |-> b \o u \o Region(d, w) \o a] :
     b \in Befores, u \in UnknownHeads, d \in 0..MaxDepth, w \in Widths, a \in Afters}

(* Family "kinds": one block or two, each a record-holding block of any    *)
(* handler.  A node block and a legacy ParticleEmitter declare ObjectId    *)
(* `id'; the other blocks have a fixed text.                               *)
NodeKinds ==
  {kwBone, kwHelper, kwAttachment, kwEventObject, kwCollisionShape, kwParticleEmitter2, kwLight,
   kwRibbonEmitter}

OtherKinds ==
  {kwSequences, kwTextures, kwMaterials, kwGeoset, kwGeosetAnim, kwCamera, kwTextureAnims,
   kwGlobalSequences}

KindPool ==
  [kind : NodeKinds \cup {kwParticleEmitter}, id : 0..MaxObjectId] \cup [kind : OtherKinds, id : {0}]

KindBlockText(b, i) ==
  CASE b.kind \in NodeKinds \cup {kwParticleEmitter} ->
         NamedBlock(b.kind, NameAt(i), Field(kwObjectId, b.id))
    [] b.kind = kwSequences ->
         W(kwSequences) \o Dec(1) \o LB \o W(kwAnim) \o Quoted(NameAt(i)) \o LB \o
         W(kwInterval) \o Braced(<<0, 10>>) \o CM \o W(kwNonLooping) \o CM \o RB \o RB
    [] b.kind = kwTextures ->
         W(kwTextures) \o Dec(1) \o LB \o W(kwBitmap) \o LB \o W(kwImage) \o Quoted(NameAt(i)) \o CM \o
         W(kwWrapWidth) \o CM \o RB \o RB
    [] b.kind = kwMaterials ->
         W(kwMaterials) \o Dec(1) \o LB \o W(kwMaterial) \o LB \o W(kwConstantColor) \o CM \o
         W(kwLayer) \o LB \o W(kwFilterMode) \o W(kwBlend) \o CM \o W(kwUnshaded) \o CM \o
         W(kwStatic) \o Field(kwTextureID, 0) \o RB \o RB \o RB
    [] b.kind = kwGeoset ->
         W(kwGeoset) \o LB \o W(kwVertices) \o Dec(1) \o LB \o Braced(<<1, 2, 3>>) \o CM \o RB \o
         W(kwTVertices) \o Dec(1) \o LB \o Braced(<<0, 1>>) \o CM \o RB \o
         W(kwVertexGroup) \o LB \o Dec(0) \o CM \o RB \o Field(kwMaterialID, 0) \o RB
    [] b.kind = kwGeosetAnim -> W(kwGeosetAnim) \o LB \o Field(kwGeosetId, 0) \o RB
    [] b.kind = kwCamera -> NamedBlock(kwCamera, NameAt(i), Field(kwFieldOfView, 1))
    [] b.kind = kwTextureAnims ->
         W(kwTextureAnims) \o Dec(1) \o LB \o W(kwTVertexAnim) \o LB \o RB \o RB
    [] OTHER -> W(kwGlobalSequences) \o Dec(1) \o LB \o Field(kwDuration, 5) \o RB

KindsText(bs) == Cat([i \in 1..Len(bs) |-> KindBlockText(bs[i], i)])

KindsInputs ==
  {[fam |-> "kinds", blocks |-> bs, text |-> KindsText(bs)] :
     bs \in {<<a>> : a \in KindPool} \cup {<<a, b>> : a \in KindPool, b \in KindPool}}

(* Family "flags": one node block whose body is one entry.                 *)
Entries ==
  {<< >>, W(kwBillboarded) \o CM, W(kwBillboardedLockX) \o CM, W(kwCameraAnchored) \o CM,
   W(kwDontInherit) \o LB \o W(kwTranslation) \o RB \o CM, Field(kwFoo, 3), Field(kwParent, 2),
   Field(kwFlags, 0), Field(kwFlags, 512), Field(kwFlags, 768)}

FlagsInputs ==
  {[fam |-> "flags", kind |-> k, entry |-> e, text |-> NamedBlock(k, <<"n">>, e)] :
     k \in NodeKinds, e \in Entries}

(* Family "missing": a block in which a number is missing after a keyword  *)
(* or inside an array.                                                     *)
MaterialText(body) == W(kwMaterials) \o Dec(1) \o LB \o W(kwMaterial) \o LB \o body \o RB \o RB

MissingInputs ==
  {[fam |-> "missing", where |-> "PriorityPlane", text |-> MaterialText(W(kwPriorityPlane) \o CM)],
   [fam |-> "missing", where |-> "static Alpha",
    text |-> W(kwGeosetAnim) \o LB \o W(kwStatic) \o W(kwAlpha) \o CM \o RB],
   [fam |-> "missing", where |-> "TVertexAnimId",
    text |-> MaterialText(W(kwLayer) \o LB \o W(kwTVertexAnimId) \o CM \o RB)],
   [fam |-> "missing", where |-> "Parent", text |-> NamedBlock(kwBone, <<"n">>, W(kwParent) \o CM)],
   [fam |-> "missing", where |-> "ObjectId", text |-> NamedBlock(kwHelper, <<"n">>, W(kwObjectId) \o CM)],
   [fam |-> "missing", where |-> "static Intensity",
    text |-> NamedBlock(kwLight, <<"n">>, W(kwStatic) \o W(kwIntensity) \o CM)],
   [fam |-> "missing", where |-> "FormatVersion",
    text |-> W(kwVersion) \o LB \o W(kwFormatVersion) \o CM \o RB],
   [fam |-> "missing", where |-> "array",
    text |-> NamedBlock(kwModel, <<"n">>, W(kwMinimumExtent) \o LB \o Dec(1) \o CM \o CM \o RB \o CM)],
   [fam |-> "missing", where |-> "point",
    text |-> W(kwPivotPoints) \o Dec(1) \o LB \o LB \o CM \o RB \o CM \o RB],
   [fam |-> "missing", where |-> "key",
    text |-> NamedBlock(kwBone, <<"n">>,
                        W(kwTranslation) \o Dec(1) \o LB \o W(kwLinear) \o CM \o Dec(0) \o
                        <<":", " ">> \o CM \o RB)]}

(* Family "malformed": a block the grammar does not allow.                 *)
MalformedInputs ==
  {[fam |-> "malformed", why |-> "strict symbol", text |-> W(kwGeoset) \o W(kwVertices)],
   [fam |-> "malformed", why |-> "strict symbol", text |-> W(kwVersion) \o W(kwFormatVersion) \o Dec(800)],
   [fam |-> "malformed", why |-> "strict symbol",
    text |-> NamedBlock(kwBone, <<"n">>, W(kwDontInherit) \o LB \o W(kwRotation) \o CM \o W(kwScaling) \o RB)],
   [fam |-> "malformed", why |-> "no keyword", text |-> NamedBlock(kwBone, <<"n">>, Dec(3))],
   [fam |-> "malformed", why |-> "unknown keyword in Materials", text |-> MaterialText(Field(kwFoo, 3))],
   [fam |-> "malformed", why |-> "unknown keyword in TextureAnims",
    text |-> W(kwTextureAnims) \o Dec(1) \o LB \o W(kwTVertexAnim) \o LB \o Field(kwFoo, 1) \o RB \o RB],
   [fam |-> "malformed", why |-> "VertexGroup before Vertices",
    text |-> W(kwGeoset) \o LB \o W(kwVertexGroup) \o LB \o Dec(0) \o CM \o RB \o RB],
   [fam |-> "malformed", why |-> "static Color without a triple",
    text |-> W(kwGeosetAnim) \o LB \o W(kwStatic) \o W(kwColor) \o CM \o RB],
   [fam |-> "malformed", why |-> "negative count",
    text |-> NamedBlock(kwEventObject, <<"n">>, W(kwEventTrack) \o Dec(-1) \o LB \o RB)]}


(* Family "shading": one Layer whose body lists shading flags, in any      *)
(* order and with repetition, alone or between other entries of a layer.   *)
MaxFlags == 2

ShadingFlags == {kwUnshaded, kwSphereEnvMap, kwTwoSided, kwUnfogged, kwNoDepthTest, kwNoDepthSet}

FlagLists == UNION {[1..n -> ShadingFlags] : n \in 0..MaxFlags}

ShadingBody(f, wrap) ==
  (IF wrap THEN W(kwFilterMode) \o W(kwBlend) \o CM ELSE << >>) \o
  Cat([i \in 1..Len(f) |-> W(f[i]) \o CM]) \o
  (IF wrap THEN W(kwStatic) \o Field(kwTextureID, 0) ELSE << >>)

ShadingInputs ==
  {[fam |-> "shading", flags |-> f, wrap |-> w,
    text |-> MaterialText(W(kwLayer) \o LB \o ShadingBody(f, w) \o RB)] :
     f \in FlagLists, w \in BOOLEAN}

(* Family "comment": a text of two blocks, given token by token, with one   *)
(* line comment put between two tokens (place 0 is before the first token, *)
(* the last place after the last one).                                     *)
CommentTokens ==
  <<W(kwVersion), LB, W(kwFormatVersion), Dec(900), CM, RB,
    W(kwBone), Quoted(<<"n">>), LB, W(kwObjectId), Dec(0), CM, RB>>

\* `//', the body and the newline that ends the line
LineComment(body) == <<"/", "/">> \o body \o NL

CommentBodies == {<< >>, <<" ", "c">>, <<"c">>}

TokensFrom(ts, a, b) == Cat([i \in 1..(b - a + 1) |-> ts[a + i - 1]])

CommentInputs ==
  {[fam |-> "comment", place |-> i, body |-> b, plain |-> Cat(CommentTokens),
    text |-> TokensFrom(CommentTokens, 1, i) \o LineComment(b) \o
             TokensFrom(CommentTokens, i + 1, Len(CommentTokens))] :
     i \in 0..Len(CommentTokens), b \in CommentBodies}


\* the Model block: the fields its body may list
InfoFields == {kwBlendTime, kwBoundsRadius, kwMinimumExtent}
InfoLists == {f \in UNION {[1..n -> InfoFields] : n \in 0..2} : \A i, j \in DOMAIN f : f[i] = f[j] => i = j}
InfoField(k) ==
  CASE k = kwBlendTime -> Field(kwBlendTime, 200)
    [] k = kwBoundsRadius -> Field(kwBoundsRadius, 5)
    [] OTHER -> W(kwMinimumExtent) \o Braced(<<1, 2, 3>>) \o CM
InfoInputs ==
  {[fam |-> "info", block |-> FALSE, fields |-> << >>, text |-> t] : t \in {<< >>, VersionText(800)}}
  \cup {[fam |-> "info", block |-> TRUE, fields |-> f,
         text |-> NamedBlock(kwModel, <<"m">>, Cat([i \in 1..Len(f) |-> InfoField(f[i])]))] : f \in InfoLists}

\* the Textures block: the entry count before the brace, inside it, or left
\* out, and the wrap flags of its one Bitmap
WrapLists == {f \in UNION {[1..n -> {kwWrapWidth, kwWrapHeight}] : n \in 0..2} : \A i, j \in DOMAIN f : f[i] = f[j] => i = j}
ImageName == <<"f", "o", "o", ".", "b", "l", "p">>
BitmapText(f) == W(kwBitmap) \o LB \o W(kwImage) \o Quoted(ImageName) \o CM \o Cat([i \in 1..Len(f) |-> W(f[i]) \o CM]) \o RB
TexturesText(count, f) ==
  CASE count = "before" -> W(kwTextures) \o Dec(1) \o LB \o BitmapText(f) \o RB
    [] count = "inside" -> W(kwTextures) \o LB \o Dec(1) \o BitmapText(f) \o RB
    [] OTHER -> W(kwTextures) \o LB \o BitmapText(f) \o RB
TexturesInputs ==
  {[fam |-> "textures", count |-> c, wraps |-> f, text |-> TexturesText(c, f)] :
     c \in {"before", "inside", "absent"}, f \in WrapLists}

\* two Model blocks, each with its own fields
AgainInputs ==
  {[fam |-> "again", first |-> f, second |-> g,
    text |-> NamedBlock(kwModel, <<"m">>, Cat([i \in 1..Len(f) |-> InfoField(f[i])]))
             \o NamedBlock(kwModel, <<"n">>, Cat([i \in 1..Len(g) |-> InfoField(g[i])]))] :
     f \in InfoLists, g \in InfoLists}

\* two blocks, with something that is no block before the first or between
\* the two: white space, a blank or an indented line after a comment, a
\* character that starts no keyword
Strays ==
  {<< >>, SP, NL, <<";">>, <<"1">>, LineComment(<<"c">>), LineComment(<<"c">>) \o NL,
   LineComment(<<"c">>) \o SP}
StrayInputs ==
  {[fam |-> "stray", place |-> i, stray |-> x,
    text |-> (IF i = 0 THEN x ELSE << >>) \o VersionText(900) \o (IF i = 1 THEN x ELSE << >>)
             \o NamedBlock(kwBone, <<"n">>, Field(kwObjectId, 0))] :
     i \in 0..1, x \in Strays}

\* the inner bodies that are read without a test of the keyword: the Groups
\* of a Geoset, the Target of a Camera, the Particle of a ParticleEmitter and
\* the SegmentColor of a ParticleEmitter2, with a well-formed entry or with a
\* character that starts no entry
StallBlocks == {kwGroups, kwTarget, kwParticle, kwSegmentColor}
StallEntries == {"entry", ";", "1"}
StallEntry(b, e) ==
  IF e # "entry" THEN <<e>> \o SP
  ELSE CASE b = kwGroups -> W(kwMatrices) \o Braced(<<0>>) \o CM
         [] b = kwTarget -> W(kwPosition) \o Braced(<<1, 2, 3>>) \o CM
         [] b = kwParticle -> W(kwPath) \o Quoted(<<"x">>) \o CM
         [] OTHER -> W(kwColor) \o Braced(<<1, 2, 3>>) \o CM
StallText(b, e) ==
  CASE b = kwGroups -> W(kwGeoset) \o LB \o W(kwGroups) \o Dec(1) \o Dec(1) \o LB \o StallEntry(b, e) \o RB \o RB
    [] b = kwTarget -> NamedBlock(kwCamera, <<"c">>, W(kwTarget) \o LB \o StallEntry(b, e) \o RB)
    [] b = kwParticle -> NamedBlock(kwParticleEmitter, <<"p">>, W(kwParticle) \o LB \o StallEntry(b, e) \o RB)
    [] OTHER -> NamedBlock(kwParticleEmitter2, <<"p">>, W(kwSegmentColor) \o LB \o StallEntry(b, e) \o RB \o CM)
StallInputs ==
  {[fam |-> "stall", block |-> b, entry |-> e, text |-> StallText(b, e)] : b \in StallBlocks, e \in StallEntries}

\* a Version block with a FormatVersion of this value, or with no
\* FormatVersion key
FormatVersions == {0, 1, 800, 900, 1000}
VersionInputs ==
  {[fam |-> "version", has |-> TRUE, value |-> n, other |-> o,
    text |-> W(kwVersion) \o LB \o (IF o THEN Field(kwFoo, 3) ELSE << >>) \o Field(kwFormatVersion, n) \o RB] :
     n \in FormatVersions, o \in BOOLEAN}
  \cup {[fam |-> "version", has |-> FALSE, value |-> 800, other |-> o,
          text |-> W(kwVersion) \o LB \o (IF o THEN Field(kwFoo, 3) ELSE << >>) \o RB] : o \in BOOLEAN}

\* well-formed texts as lists of tokens, the comma after an entry a token of
\* its own, and each text with one of these commas left out (0: none)
CommaBases ==
  {<<W(kwVersion), LB, W(kwFormatVersion), Dec(900), CM, RB,
     W(kwBone), Quoted(<<"n">>), LB, W(kwObjectId), Dec(0), CM, W(kwBillboarded), CM, RB>>,
   <<W(kwGeoset), LB, W(kwVertices), Dec(1), LB, Braced(<<1, 2, 3>>), CM, RB,
     W(kwMinimumExtent), Braced(<<1, 2, 3>>), CM, W(kwMaximumExtent), Braced(<<4, 5, 6>>), CM,
     W(kwBoundsRadius), Dec(5), CM, W(kwMaterialID), Dec(0), CM, W(kwSelectionGroup), Dec(0), CM,
     W(kwUnselectable), CM, RB>>,
   <<W(kwBone), Quoted(<<"n">>), LB, W(kwTranslation), Dec(1), LB, W(kwHermite), CM,
     W(kwGlobalSeqId), Dec(0), CM, Dec(10), <<":", " ">>, Braced(<<1, 2, 3>>), CM,
     W(kwInTan), Braced(<<4, 5, 6>>), CM, W(kwOutTan), Braced(<<7, 8, 9>>), CM, RB, CM, RB>>}
CommaPlaces(ts) == {i \in DOMAIN ts : ts[i] = CM}
CommaInputs ==
  UNION {{[fam |-> "comma", place |-> i, tokens |-> ts, plain |-> Cat(ts),
           text |-> IF i = 0 THEN Cat(ts)
                    ELSE TokensFrom(ts, 1, i - 1) \o TokensFrom(ts, i + 1, Len(ts))] :
            i \in {0} \cup CommaPlaces(ts)} : ts \in CommaBases}

\* a track with `keys' keyframes that declares the count `count', or none
\* (declared FALSE), and lists the GlobalSeqId entries `ids', the first
\* before the keyframes and the second after them
CountHolders ==
  {Holder("node", kwBone, kwTranslation, 3), Holder("plain", kwGeosetAnim, kwAlpha, 1),
   Holder("layer", kwMaterials, kwAlpha, 1), Holder("target", kwCamera, kwTranslation, 3)}
SeqIdText(ids, i) == IF i <= Len(ids) THEN Field(kwGlobalSeqId, ids[i]) ELSE << >>
CountText(h, declared, count, lt, n, ids) ==
  W(h.key) \o (IF declared THEN Dec(count) ELSE << >>) \o LB \o W(lt) \o CM \o SeqIdText(ids, 1)
  \o Cat([j \in 1..n |-> KeyText(j, h.arity, "exact", lt)]) \o SeqIdText(ids, 2) \o RB
CountInputs ==
  {[fam |-> "count", holder |-> h, declared |-> d[1], count |-> d[2], lineType |-> lt, keys |-> n, ids |-> g,
    text |-> HolderText(h, CountText(h, d[1], d[2], lt, n, g))] :
     h \in CountHolders, d \in ({TRUE} \X (0..(MaxKeys + 1))) \cup {<<FALSE, 0>>},
     lt \in {kwLinear, kwHermite}, n \in 0..MaxKeys, g \in Scripts(0..1, 2)}
Inputs ==
  OrderInputs \cup PrefixInputs \cup TrackInputs \cup ColourInputs \cup UnknownInputs \cup KindsInputs
  \cup FlagsInputs \cup MissingInputs \cup MalformedInputs \cup ShadingInputs
  \cup CommentInputs \cup InfoInputs \cup TexturesInputs
  \cup AgainInputs \cup StrayInputs \cup StallInputs
  \cup VersionInputs \cup CommaInputs
  \cup CountInputs

Init ==
  /\ src \in Inputs
  /\ str = src.text
  /\ pos = 0
  /\ model = NewModel
  /\ heap = << >>
  /\ pc = "loop"
  /\ ex = "none"

-----------------------------------------------------------------------------
(* The state machine.  pc is the driver's position: "loop" at the head of  *)
(* the while loop, "final" before the finalization pass, "done" when parse *)
(* has returned the scene, "threw" when an exception left parse, "hang"    *)
(* when parse is in a loop it never leaves.                                *)
AtLoop == pc = "loop" /\ pos < Len(str)

Dispatching(k) ==
  /\ AtLoop
  /\ TopKeyword(str, pos).ex = "none"
  /\ IsKw(TopKeyword(str, pos).val, k)

Outcome(r) ==
  /\ pos' = r.pos
  /\ model' = r.model
  /\ heap' = r.heap
  /\ ex' = r.ex
  /\ pc' = IF r.ex = "none" THEN "loop" ELSE IF r.ex = "hang" THEN "hang" ELSE "threw"
  /\ UNCHANGED <<str, src>>

Version == Dispatching(kwVersion) /\ Outcome(parseVersion(str, TopKeyword(str, pos).pos, model, heap))
Model == Dispatching(kwModel) /\ Outcome(parseModelInfo(str, TopKeyword(str, pos).pos, model, heap))
SequencesBlock == Dispatching(kwSequences) /\ Outcome(parseSequences(str, TopKeyword(str, pos).pos, model, heap))
Textures == Dispatching(kwTextures) /\ Outcome(parseTextures(str, TopKeyword(str, pos).pos, model, heap))
Materials == Dispatching(kwMaterials) /\ Outcome(parseMaterials(str, TopKeyword(str, pos).pos, model, heap))
Geoset == Dispatching(kwGeoset) /\ Outcome(parseGeoset(str, TopKeyword(str, pos).pos, model, heap))
GeosetAnim == Dispatching(kwGeosetAnim) /\ Outcome(parseGeosetAnim(str, TopKeyword(str, pos).pos, model, heap))
Bone == Dispatching(kwBone) /\ Outcome(parseBone(str, TopKeyword(str, pos).pos, model, heap))
Helper == Dispatching(kwHelper) /\ Outcome(parseHelper(str, TopKeyword(str, pos).pos, model, heap))
Attachment == Dispatching(kwAttachment) /\ Outcome(parseAttachment(str, TopKeyword(str, pos).pos, model, heap))
PivotPoints == Dispatching(kwPivotPoints) /\ Outcome(parsePivotPoints(str, TopKeyword(str, pos).pos, model, heap))
EventObject == Dispatching(kwEventObject) /\ Outcome(parseEventObject(str, TopKeyword(str, pos).pos, model, heap))
CollisionShape == Dispatching(kwCollisionShape) /\ Outcome(parseCollisionShape(str, TopKeyword(str, pos).pos, model, heap))
GlobalSequences == Dispatching(kwGlobalSequences) /\ Outcome(parseGlobalSequences(str, TopKeyword(str, pos).pos, model, heap))
ParticleEmitter == Dispatching(kwParticleEmitter) /\ Outcome(parseParticleEmitter(str, TopKeyword(str, pos).pos, model, heap))
ParticleEmitter2 == Dispatching(kwParticleEmitter2) /\ Outcome(parseParticleEmitter2(str, TopKeyword(str, pos).pos, model, heap))
Camera == Dispatching(kwCamera) /\ Outcome(parseCamera(str, TopKeyword(str, pos).pos, model, heap))
Light == Dispatching(kwLight) /\ Outcome(parseLight(str, TopKeyword(str, pos).pos, model, heap))
TextureAnims == Dispatching(kwTextureAnims) /\ Outcome(parseTextureAnims(str, TopKeyword(str, pos).pos, model, heap))
RibbonEmitter == Dispatching(kwRibbonEmitter) /\ Outcome(parseRibbonEmitter(str, TopKeyword(str, pos).pos, model, heap))

\* a keyword parsers inherits: the call of a method of Object.prototype
Inherited ==
  /\ AtLoop
  /\ TopKeyword(str, pos).ex = "none"
  /\ TopKeyword(str, pos).val.t = "str"
  /\ TopKeyword(str, pos).val.v \in ObjectPrototype
  /\ Outcome(inherited(str, TopKeyword(str, pos).pos, model, heap))

\* `keyword in parsers' is false: parseUnknownBlock
UnknownBlock ==
  /\ AtLoop
  /\ TopKeyword(str, pos).ex = "none"
  /\ TopKeyword(str, pos).val.t = "str"
  /\ TopKeyword(str, pos).val.v \notin parsers \cup ObjectPrototype
  /\ Outcome(parseUnknownBlock(str, TopKeyword(str, pos).pos, model, heap))

\* no keyword at the cursor: break
Break ==
  /\ AtLoop
  /\ TopKeyword(str, pos).ex = "none"
  /\ TopKeyword(str, pos).val.t = "null"
  /\ pos' = TopKeyword(str, pos).pos
  /\ pc' = "final"
  /\ UNCHANGED <<str, model, heap, ex, src>>

\* the driver's own parseKeyword runs off the end of the input
KeywordRunsOff ==
  /\ AtLoop
  /\ TopKeyword(str, pos).ex # "none"
  /\ pos' = TopKeyword(str, pos).pos
  /\ ex' = TopKeyword(str, pos).ex
  /\ pc' = IF TopKeyword(str, pos).ex = "hang" THEN "hang" ELSE "threw"
  /\ UNCHANGED <<str, model, heap, src>>

\* state.pos < state.str.length is false: the loop ends
EndOfInput ==
  /\ pc = "loop"
  /\ pos >= Len(str)
  /\ pc' = "final"
  /\ UNCHANGED <<str, pos, model, heap, ex, src>>

\* the finalization pass and the return
Finalize ==
  /\ pc = "final"
  /\ heap' = PivotPass(model, heap, 0).heap
  /\ ex' = PivotPass(model, heap, 0).ex
  /\ pc' = IF PivotPass(model, heap, 0).ex = "none" THEN "done" ELSE "threw"
  /\ UNCHANGED <<str, pos, model, src>>

Next ==
  \/ Version \/ Model \/ SequencesBlock \/ Textures \/ Materials \/ Geoset \/ GeosetAnim
  \/ Bone \/ Helper \/ Attachment \/ PivotPoints \/ EventObject \/ CollisionShape
  \/ GlobalSequences \/ ParticleEmitter \/ ParticleEmitter2 \/ Camera \/ Light
  \/ TextureAnims \/ RibbonEmitter \/ Inherited \/ UnknownBlock \/ Break \/ KeywordRunsOff
  \/ EndOfInput \/ Finalize

Spec == Init /\ [][Next]_vars

-----------------------------------------------------------------------------
(* Properties of parse.  The scene is `model' with the records on `heap';  *)
(* a property that speaks of the source reads it from `src'.               *)

\* the entries of a list: those at its indices and those set as properties
Members(list) ==
  {list.at[i] : i \in DOMAIN list.at} \cup {list.props[i][2] : i \in DOMAIN list.props}

\* the three numbers of a stored colour
Triple(arr) == <<arr.v[1].v, arr.v[2].v, arr.v[3].v>>

\* {b, g, r} of the source as [r, g, b]
Rgb(c) == <<c[3], c[2], c[1]>>

RECURSIVE AnimVectorsIn(_)
\* the animated tracks inside a value
AnimVectorsIn(x) ==
  CASE x.t = "anim" -> {x}
    [] x.t = "obj" -> UNION {AnimVectorsIn(x.f[k]) : k \in DOMAIN x.f}
    [] x.t = "arr" -> UNION {AnimVectorsIn(x.v[i]) : i \in DOMAIN x.v}
    [] OTHER -> {}

\* the animated tracks of the scene
SceneAnimVectors == UNION {AnimVectorsIn(heap[a]) : a \in DOMAIN heap}

HasTangents(animVector) == animVector.LineType \in {LineType(kwHermite), LineType(kwBezier)}

-----------------------------------------------------------------------------
\* C1: for every finite input parse halts: it returns a scene or raises an
\* error, also when the input ends inside a quoted string, inside a block
\* body, after a number or in a trailing comment.  pc = "hang" is a run
\* inside a loop of a reader whose exit condition no turn can make true, so
\* the claim says that no run gets there.
C1_ParseHalts == pc # "hang"

-----------------------------------------------------------------------------
\* the shape of one keyframe
KeyframeShape(key, arity, tangents) ==
  /\ Len(key.Vector.v) = arity
  /\ IF tangents
     THEN /\ {"InTan", "OutTan"} \subseteq DOMAIN key
          /\ Len(key.InTan.v) = arity
          /\ Len(key.OutTan.v) = arity
     ELSE "InTan" \notin DOMAIN key /\ "OutTan" \notin DOMAIN key

\* C2: in a scene parse returned, every keyframe of every animated track
\* has a Vector of the arity its channel declares; with LineType Hermite or
\* Bezier every keyframe has InTan and OutTan of that arity, otherwise it
\* has neither.
C2_KeyframeArity ==
  (pc = "done" /\ src.fam \in {"track", "colour"}) =>
    \A a \in SceneAnimVectors :
      \A i \in DOMAIN a.Keys : KeyframeShape(a.Keys[i], src.holder.arity, HasTangents(a))

\* a Hermite track of a quaternion channel, two keys, every vector of the
\* source one number longer than the arity
C2_Witness ==
  /\ pc = "done"
  /\ src.fam = "track"
  /\ src.holder.arity = 4
  /\ src.shape = "long"
  /\ src.lineType = kwHermite
  /\ \E a \in SceneAnimVectors :
       /\ Len(a.Keys) = 2
       /\ a.LineType = LineType(kwHermite)
       /\ Len(a.Keys[2].OutTan.v) = 4

-----------------------------------------------------------------------------
\* the place in the source of the block with this name
PlaceOf(name) == CHOOSE i \in 1..Len(src.blocks) : NameAt(i) = name

\* the names of the nodes in the order of Nodes
NodeNames ==
  [i \in 1..Len(Elements(model.Nodes)) |-> Get(heap[Elements(model.Nodes)[i].a], kwName).v]

\* C3: in a scene parse returned, the entries of every list stand in the
\* order of their tokens in the source.  Stated for Nodes (the names of the
\* nodes of the source are NameAt(1), NameAt(2), ... in source order) and
\* for the Keys of a track (key j of the source has frame 10j).
C3_SourceOrder ==
  /\ (pc = "done" /\ src.fam = "order") =>
       \A i, j \in DOMAIN NodeNames : i < j => PlaceOf(NodeNames[i]) < PlaceOf(NodeNames[j])
  /\ (pc = "done" /\ src.fam = "track") =>
       \A a \in SceneAnimVectors :
         \A i, j \in DOMAIN a.Keys : i < j => a.Keys[i].Frame.v < a.Keys[j].Frame.v

-----------------------------------------------------------------------------
\* C4: parse ends with the finalization pass done, and then for every index
\* i with a PivotPoints entry the node at Nodes[i] has that entry as its
\* PivotPoint, and every other node has none; whatever the order of the
\* blocks and the ObjectIds.
C4_PivotAssignment ==
  (src.fam = "order" /\ pc \in {"done", "threw"}) =>
    /\ pc = "done"
    /\ \A i \in DOMAIN model.Nodes.at :
         Get(heap[model.Nodes.at[i].a], kwPivotPoint) =
           (IF Truthy(ListGet(model.PivotPoints, i)) THEN ListGet(model.PivotPoints, i) ELSE Null)

-----------------------------------------------------------------------------
\* C5: a top-level block with an unregistered keyword and a region of
\* matched braces is skipped: the scene and the way parse ends are those of
\* the same text without the block.
C5_UnknownBlockSkipped ==
  (src.fam = "unknown" /\ pc \in {"done", "threw"}) =>
    /\ model = parse(src.before \o src.after).model
    /\ heap = parse(src.before \o src.after).heap
    /\ ex = parse(src.before \o src.after).ex

-----------------------------------------------------------------------------
\* C6: every failure of parse is a SyntaxError (with the offset of the
\* cursor): a strict-symbol mismatch, an unknown keyword in Materials or
\* TextureAnims, and any other malformed block.
C6_OnlySyntaxErrors == (src.fam = "malformed" /\ pc = "threw") => ex = "SyntaxError"

-----------------------------------------------------------------------------
\* C7: a number missing after a keyword or inside an array aborts parse; it
\* never returns a scene for such a text.
C7_MissingNumberAborts == src.fam = "missing" => pc # "done"

-----------------------------------------------------------------------------
\* the names of enum NodeType
NodeTypes ==
  {"Helper", "Bone", "Light", "EventObject", "Attachment", "ParticleEmitter", "CollisionShape",
   "RibbonEmitter"}

\* the type tag a handler gives its node
TypeOfKind(kind) ==
  CASE kind = kwBone -> "Bone" [] kind = kwHelper -> "Helper" [] kind = kwAttachment -> "Attachment"
    [] kind = kwEventObject -> "EventObject" [] kind = kwCollisionShape -> "CollisionShape"
    [] kind = kwParticleEmitter2 -> "ParticleEmitter" [] kind = kwLight -> "Light"
    [] kind = kwRibbonEmitter -> "RibbonEmitter"

\* the type tags a Flags value carries
TypeTags(flags) ==
  IF flags.t = "num" /\ flags.v >= 0
  THEN {t \in NodeTypes : BitAndNat(flags.v, NodeType(t)) # 0}
  ELSE {}

\* C8: when its handler has finished, the Flags of a node record carry
\* exactly one type tag, that of the handler.
C8_OneTypeTag ==
  (src.fam = "flags" /\ pc = "done") =>
    \A a \in DOMAIN heap : TypeTags(Get(heap[a], kwFlags)) = {TypeOfKind(src.kind)}

-----------------------------------------------------------------------------
\* the lists of the scene
NodeBuckets ==
  {"Bones", "Helpers", "Attachments", "EventObjects", "CollisionShapes", "ParticleEmitters2",
   "Lights", "RibbonEmitters"}

OtherLists ==
  {"Sequences", "Textures", "Materials", "Geosets", "GeosetAnims", "Cameras", "TextureAnims",
   "ParticleEmitters", "GlobalSequences"}

\* the bucket a handler appends to
BucketOfKind(kind) ==
  CASE kind = kwBone -> "Bones" [] kind = kwHelper -> "Helpers" [] kind = kwAttachment -> "Attachments"
    [] kind = kwEventObject -> "EventObjects" [] kind = kwCollisionShape -> "CollisionShapes"
    [] kind = kwParticleEmitter2 -> "ParticleEmitters2" [] kind = kwLight -> "Lights"
    [] kind = kwRibbonEmitter -> "RibbonEmitters" [] OTHER -> "none"

\* the kind of the block of the source that has this name
KindOfName(name) == src.blocks[CHOOSE i \in 1..Len(src.blocks) : NameAt(i) = name].kind

\* C9: after any sequence of top-level blocks, every record in Nodes is in
\* a typed bucket of nodes, that of the handler that made it, and in no
\* list of records that are not nodes.
C9_NodesAreBucketed ==
  \A x \in Members(model.Nodes) :
    /\ x.t = "ref"
    /\ \E b \in NodeBuckets : x \in Members(model[b])
    /\ \A o \in OtherLists : x \notin Members(model[o])
    /\ src.fam = "kinds" =>
         /\ BucketOfKind(KindOfName(Get(heap[x.a], kwName).v)) \in NodeBuckets
         /\ x \in Members(model[BucketOfKind(KindOfName(Get(heap[x.a], kwName).v))])

\* an EventObject, which is pushed, then a Bone, which is put at its ObjectId
C9_Witness ==
  /\ pc = "done"
  /\ src.fam = "kinds"
  /\ src.blocks = <<[kind |-> kwEventObject, id |-> 0], [kind |-> kwBone, id |-> 1]>>
  /\ model.Nodes.length = 2
  /\ model.Bones.length = 1
  /\ model.EventObjects.length = 1
  /\ Members(model.Nodes) = Members(model.Bones) \cup Members(model.EventObjects)

-----------------------------------------------------------------------------
\* arr holds the source triple c reversed, and reversing it gives c again
StoredAs(arr, c) ==
  /\ arr.t = "arr"
  /\ Len(arr.v) = 3
  /\ Triple(arr) = Rgb(c)
  /\ Triple(reverse(arr)) = c
  /\ Triple(SwapColor(arr)) = c

\* key j of a colour track
KeyStoredAs(key, j, tangents) ==
  /\ StoredAs(key.Vector, Shifted(src.bgr, 10 * j))
  /\ tangents =>
       /\ StoredAs(key.InTan, Shifted(src.bgr, 10 * j + 100))
       /\ StoredAs(key.OutTan, Shifted(src.bgr, 10 * j + 200))
       /\ Triple(ReverseKey(key).InTan) = Shifted(src.bgr, 10 * j + 100)
       /\ Triple(ReverseKey(key).OutTan) = Shifted(src.bgr, 10 * j + 200)

\* the colour of the record that holds it
ColourStored(record) ==
  CASE src.mode = "static" -> StoredAs(Get(record, src.holder.key), src.bgr)
    [] src.mode = "segment" ->
         /\ Get(record, kwSegmentColor).t = "arr"
         /\ Len(Get(record, kwSegmentColor).v) = 3
         /\ \A j \in 1..3 : StoredAs(Get(record, kwSegmentColor).v[j], Shifted(src.bgr, 10 * j))
    [] OTHER ->
         /\ Get(record, src.holder.key).t = "anim"
         /\ Len(Get(record, src.holder.key).Keys) = src.keys
         /\ \A j \in 1..src.keys :
              KeyStoredAs(Get(record, src.holder.key).Keys[j], j, src.lineType \in {kwHermite, kwBezier})

\* C10: a colour the source writes {b, g, r} is stored [r, g, b]: the static
\* Color of a GeosetAnim, a Light (also AmbColor) and a RibbonEmitter, every
\* SegmentColor entry of a ParticleEmitter2, and the Vector, InTan and
\* OutTan of every key of an animated colour of a GeosetAnim or a Light.
\* The same mapping applied to what is stored gives the triple of the
\* source again.
C10_ColourReversed ==
  (src.fam = "colour" /\ pc = "done") => (Len(heap) = 1 /\ ColourStored(heap[1]))

\* a Bezier colour track of a Light with two keys, b = 1 and g = r = 0
C10_Witness ==
  /\ pc = "done"
  /\ src.fam = "colour"
  /\ src.mode = "track"
  /\ src.holder.kind = kwLight
  /\ src.lineType = kwBezier
  /\ src.keys = 2
  /\ src.bgr = <<1, 0, 0>>
  /\ Triple(Get(heap[1], src.holder.key).Keys[2].Vector) = <<20, 20, 21>>
  /\ Triple(Get(heap[1], src.holder.key).Keys[2].OutTan) = <<220, 220, 221>>

-----------------------------------------------------------------------------
RECURSIVE SumOf(_)
\* the sum of a set of numbers
SumOf(S) == IF S = {} THEN 0 ELSE Let([x \in {CHOOSE y \in S : TRUE} |->
                                                                    x + SumOf(S \ {x})])

\* the one layer of the one material of the scene
TheLayer == Get(heap[1], kwLayers).v[1]

\* C11: the shading flags listed in a Layer block, in any order and with any
\* repetition, give a Shading that is the bitwise OR of their values and has
\* no other bit.  The values are distinct powers of two, so the OR of a set
\* of them is the sum of its members.
C11_ShadingIsOr ==
  (src.fam = "shading" /\ pc \in {"done", "threw", "hang"}) =>
    /\ pc = "done"
    /\ Get(TheLayer, kwShading) = Num(SumOf({LayerShading(src.flags[i]) : i \in DOMAIN src.flags}))

\* Layer { FilterMode Blend, NoDepthSet, Unshaded, static TextureID 0, }
C11_Witness ==
  /\ pc = "done"
  /\ src.fam = "shading"
  /\ src.flags = <<kwNoDepthSet, kwUnshaded>>
  /\ src.wrap
  /\ Get(TheLayer, kwShading) = Num(129)
  /\ Get(TheLayer, kwFilterMode) = Num(2)

-----------------------------------------------------------------------------
\* C12: a line comment between any two tokens, at top level or inside a
\* block body, leaves the outcome of parse what it is for the text without
\* the comment: the same scene, and no error.
C12_CommentIsTrivia ==
  (src.fam = "comment" /\ pc \in {"done", "threw", "hang"}) =>
    /\ pc = "done"
    /\ model = parse(src.plain).model
    /\ heap = parse(src.plain).heap

-----------------------------------------------------------------------------
\* C13: Info.BlendTime is the default 150 after an input whose Model block
\* does not list BlendTime, and after an input with no Model block at all;
\* a listed BlendTime is the value read.
C13_BlendTimeDefault ==
  (src.fam = "info" /\ pc \in {"done", "threw", "hang"}) =>
    /\ pc = "done"
    /\ Get(model.Info, kwBlendTime) =
         (IF \E i \in DOMAIN src.fields : src.fields[i] = kwBlendTime THEN Num(200) ELSE Num(150))

-----------------------------------------------------------------------------
\* the texture records of the scene
TextureAt(i) == heap[ListGet(model.Textures, i).a]

\* C14: the text `Textures { 1 Bitmap { Image "foo.blp", WrapWidth,
\* WrapHeight, } }', with the entry count inside the braces, is parsed
\* without error into exactly one texture whose Image is "foo.blp", whose
\* Flags are 3 and which has no WrapWidth and no WrapHeight key.
C14_CountInsideBraces ==
  (/\ src.fam = "textures" /\ src.count = "inside" /\ src.wraps = <<kwWrapWidth, kwWrapHeight>>
   /\ pc \in {"done", "threw", "hang"}) =>
    /\ pc = "done"
    /\ model.Textures.length = 1
    /\ Get(TextureAt(0), kwImage) = Str(ImageName)
    /\ Get(TextureAt(0), kwFlags) = Num(3)
    /\ ~Has(TextureAt(0), kwWrapWidth)
    /\ ~Has(TextureAt(0), kwWrapHeight)

\* the same record from the text with the count before the brace
E_C14_CountBeforeBrace ==
  (/\ src.fam = "textures" /\ src.count # "inside"
   /\ pc \in {"done", "threw", "hang"}) =>
    /\ pc = "done"
    /\ model.Textures.length = 1
    /\ Get(TextureAt(0), kwImage) = Str(ImageName)
    /\ Get(TextureAt(0), kwFlags) = Num(SumOf({TextureFlags(src.wraps[i]) : i \in DOMAIN src.wraps}))
    /\ ~Has(TextureAt(0), kwWrapWidth)
    /\ ~Has(TextureAt(0), kwWrapHeight)

-----------------------------------------------------------------------------
\* a record of the list has the text `name' under `key'
Listed(list, key, name) ==
  \E x \in Members(list) : x.t = "ref" /\ Get(heap[x.a], key) = Str(name)

\* the number of blocks of this kind in the source
BlocksOf(kind) == Cardinality({i \in DOMAIN src.blocks : src.blocks[i].kind = kind})

\* the number of points the PivotPoints blocks of the source list
RECURSIVE PointsListed(_)
PointsListed(i) ==
  IF i = 0 THEN 0
  ELSE PointsListed(i - 1) + (IF src.blocks[i].kind = kwPivotPoints THEN src.blocks[i].id ELSE 0)

\* C15: the scene is built append-only.  When parse returns, the entries of
\* every block of the source are in the scene: those of a second Sequences,
\* Textures, Materials or PivotPoints block beside those of the first, the
\* fields of a first Model block beside those of a second, and a node in
\* Nodes beside a later node that declares the same ObjectId.
C15_AppendOnly ==
  /\ (pc = "done" /\ src.fam = "kinds") =>
       /\ \A i \in DOMAIN src.blocks :
            /\ src.blocks[i].kind = kwSequences => Listed(model.Sequences, kwName, NameAt(i))
            /\ src.blocks[i].kind = kwTextures => Listed(model.Textures, kwImage, NameAt(i))
            /\ src.blocks[i].kind \in NodeKinds => Listed(model.Nodes, kwName, NameAt(i))
       /\ Cardinality(Members(model.Materials)) = BlocksOf(kwMaterials)
  /\ (pc = "done" /\ src.fam = "order") =>
       Len(Elements(model.PivotPoints)) = PointsListed(Len(src.blocks))
  /\ (pc = "done" /\ src.fam = "again") =>
       \A k \in InfoFields :
         (\E i \in DOMAIN src.first : src.first[i] = k) => Has(model.Info, k)

-----------------------------------------------------------------------------
\* C16: in a scene parse returned, the node at every populated index i of
\* Nodes declares ObjectId i, whatever the kinds of the node blocks and
\* their order in the source.
C16_IndexIsObjectId ==
  pc = "done" =>
    \A i \in DOMAIN model.Nodes.at :
      /\ model.Nodes.at[i].t = "ref"
      /\ Get(heap[model.Nodes.at[i].a], kwObjectId) = Num(i)

-----------------------------------------------------------------------------
\* the source is made of Bone, Helper and Attachment blocks only
OnlyPlainNodes ==
  /\ src.fam = "kinds"
  /\ \A i \in DOMAIN src.blocks : src.blocks[i].kind \in {kwBone, kwHelper, kwAttachment}

LastWithId(id) ==
  IF \E i \in DOMAIN src.blocks : src.blocks[i].id = id
  THEN CHOOSE i \in DOMAIN src.blocks :
         /\ src.blocks[i].id = id
         /\ \A j \in DOMAIN src.blocks : src.blocks[j].id = id => j <= i
  ELSE 0

-----------------------------------------------------------------------------
\* the buckets of the handlers that append to Nodes
PushedBuckets == {"EventObjects", "CollisionShapes", "ParticleEmitters2", "Lights", "RibbonEmitters"}

\* C18: every record of an EventObject, CollisionShape, ParticleEmitter2,
\* Light or RibbonEmitter block is in Nodes when parse returns, whatever
\* Bone, Helper and Attachment blocks stand before or after it and whatever
\* their ObjectIds: each of the five buckets is a subset of Nodes.
C18_PushedStayInNodes ==
  pc = "done" =>
    \A b \in PushedBuckets : Members(model[b]) \subseteq Members(model.Nodes)

-----------------------------------------------------------------------------
\* C19: the driver stops at the end of the input only.  Whenever parse
\* returns a scene the cursor is at or past the end of the text, and every
\* registered block of the text was handed to its handler: white space
\* before a block, a blank or an indented line after a comment and a
\* character that starts no keyword do not end the parse early.
C19_StopsAtEndOnly ==
  pc = "done" =>
    /\ pos >= Len(str)
    /\ src.fam = "stray" =>
         /\ model.Version = Num(900)
         /\ model.Bones.length = 1

-----------------------------------------------------------------------------
\* the offset of the comment of a text of the family "comment"
CommentStart == Len(TokensFrom(CommentTokens, 1, src.place))

\* C20: skipping a line comment takes the cursor from its two slashes to the
\* first character of the next line and no further, for every comment body
\* and for the empty one as well: the line after a comment is read.  Stated
\* for parseComment at the comment of the text, and for the driver, which
\* reads the block on the line after a comment that stands before it, when parse has ended.
C20_CommentEndsAtNewline ==
  (src.fam = "comment" /\ pc \in {"done", "threw", "hang"}) =>
    /\ parseComment(str, CommentStart) = CommentStart + Len(LineComment(src.body))
    /\ src.place = 0 =>
         /\ pc = "done"
         /\ model.Version = Num(900)
         /\ model.Bones.length = 1

-----------------------------------------------------------------------------
\* C21: the cursor only moves forward.  No step of parse leaves state.pos
\* smaller than it was, and every turn of the loop of a block body that
\* raises no error moves the cursor on by a character at least: no run is
\* left turning in a loop with the cursor standing still inside the text.
C21_ForwardOnly ==
  /\ [][pos' >= pos]_vars
  /\ [](ex \in {"hang", "exhaust"} => pos >= Len(str))

-----------------------------------------------------------------------------
\* C22: after a Version block whose body has a FormatVersion key, the
\* Version of the scene is the number of that key, whatever the number, 0
\* included; it is the initial 800 only when the body has no such key.
C22_VersionCopied ==
  (src.fam = "version" /\ pc \in {"done", "threw", "hang"}) =>
    /\ pc = "done"
    /\ model.Version = (IF src.has THEN Num(src.value) ELSE Num(800))

-----------------------------------------------------------------------------
\* C23: the comma after an entry of a block body is optional.  A text that
\* parses still parses, and to the same scene, with the comma after any one
\* of its entries left out: after the entries of a Geoset, after the vectors
\* of a keyframe and its tangents, and after the entries of an object or a
\* node.
C23_CommaOptional ==
  (src.fam = "comma" /\ parse(src.plain).ex = "none" /\ pc \in {"done", "threw", "hang"}) =>
    /\ pc = "done"
    /\ model = parse(src.plain).model
    /\ heap = parse(src.plain).heap

-----------------------------------------------------------------------------
\* C24: the count written before the `{' of an animated track is read and
\* not used.  Whatever count the track declares, too small, too large or
\* none, its Keys are the keyframes its body lists, as many as there are
\* `frame:' entries and in their order, and its GlobalSeqId is one value:
\* null when the body lists none, the last one listed otherwise.
C24_CountIsHint ==
  (src.fam = "count" /\ pc \in {"done", "threw", "hang"}) =>
    /\ pc = "done"
    /\ Cardinality(SceneAnimVectors) = 1
    /\ \A a \in SceneAnimVectors :
         /\ Len(a.Keys) = src.keys
         /\ \A j \in DOMAIN a.Keys : a.Keys[j].Frame = Num(10 * j)
         /\ a.GlobalSeqId = (IF src.ids = << >> THEN Null ELSE Num(src.ids[Len(src.ids)]))

\* a track that declares three keyframes and lists one, with GlobalSeqId 0
\* before it and GlobalSeqId 1 after it
C24_Witness ==
  /\ pc = "done"
  /\ src.fam = "count"
  /\ src.declared
  /\ src.count = 3
  /\ src.keys = 1
  /\ src.ids = <<0, 1>>
  /\ \E a \in SceneAnimVectors : Len(a.Keys) = 1 /\ a.GlobalSeqId = Num(1)
====
